---- MODULE Spec2Model ----
(***************************************************************************)
(* Lazy Coder: the pipeline orchestration engine (startProject and         *)
(* handleChat of the top-level controller), the ten agents of              *)
(* services/gemini.ts and the parsing helpers of utils/helpers.ts.         *)
(*                                                                         *)
(* Texts are sequences of symbols.  A symbol is one character of the       *)
(* source text ("{", "}", "[", "]", ":", ",", the double quote, a blank,   *)
(* a digit) or a run of characters none of which the code inspects, kept   *)
(* together as one symbol ("a.tf", "README.md", "w", "null", "json", the   *)
(* fence of three backticks, JSON_START, JSON_END).                        *)
(***************************************************************************)
EXTENDS Integers, Sequences, FiniteSets, TLC

VARIABLES currentProject, agentConfig, run, chats, statusTrace, fx

vars == <<currentProject, agentConfig, run, chats, statusTrace, fx>>

\* The number of refinement exchanges a behaviour starts.
MaxChats == 2

\* The greatest value the clock returns.
MaxNow == 1

(***************************************************************************)
(* Symbols                                                                 *)
(***************************************************************************)
DQ == "\""
\* The markdown fence: three backticks, one symbol.
FENCE == "<fence>"
WS == " "
Digits == {"0", "1", "2"}

IsSpace(c) == c = WS

\* String.prototype.indexOf / lastIndexOf, 0-based, -1 when absent.
IndexOf(t, c) ==
  IF \E i \in 1..Len(t) : t[i] = c
  THEN (CHOOSE i \in 1..Len(t) : t[i] = c /\ \A j \in 1..(i - 1) : t[j] # c) - 1
  ELSE -1

LastIndexOf(t, c) ==
  IF \E i \in 1..Len(t) : t[i] = c
  THEN (CHOOSE i \in 1..Len(t) : t[i] = c /\ \A j \in (i + 1)..Len(t) : t[j] # c) - 1
  ELSE -1

\* String.prototype.substring(from, to), 0-based, to exclusive; the larger
\* index is taken as the end.
Substring(t, from, to) ==
  IF from <= to THEN SubSeq(t, from + 1, to) ELSE SubSeq(t, to + 1, from)

\* String.prototype.trim
Trim(t) ==
  IF \A i \in 1..Len(t) : IsSpace(t[i]) THEN <<>>
  ELSE LET a == CHOOSE i \in 1..Len(t) : ~IsSpace(t[i]) /\ \A j \in 1..(i - 1) : IsSpace(t[j])
           b == CHOOSE i \in 1..Len(t) : ~IsSpace(t[i]) /\ \A j \in (i + 1)..Len(t) : IsSpace(t[j])
       IN SubSeq(t, a, b)

(***************************************************************************)
(* JSON values and JSON.parse                                              *)
(***************************************************************************)
JNull == [t |-> "null", s |-> <<>>, keys |-> <<>>, kids |-> <<>>]
JNum(d) == [t |-> "num", s |-> d, keys |-> <<>>, kids |-> <<>>]
JStr(s) == [t |-> "str", s |-> s, keys |-> <<>>, kids |-> <<>>]
JArr(kids) == [t |-> "arr", s |-> <<>>, keys |-> <<>>, kids |-> kids]
JObj(keys, kids) == [t |-> "obj", s |-> <<>>, keys |-> keys, kids |-> kids]

PFail == [ok |-> FALSE, val |-> JNull, pos |-> 0]
POk(v, p) == [ok |-> TRUE, val |-> v, pos |-> p]

\* The first position >= i that holds no blank (Len(t) + 1 when there is none).
SkipWs(t, i) ==
  IF \E j \in i..Len(t) : ~IsSpace(t[j])
  THEN CHOOSE j \in i..Len(t) : ~IsSpace(t[j]) /\ \A k \in i..(j - 1) : IsSpace(t[k])
  ELSE Len(t) + 1

\* The end of the number that starts at i: "0", or a run of digits.
DigitsEnd(t, i) ==
  IF t[i] = "0" THEN i
  ELSE IF \E j \in i..Len(t) : t[j] \notin Digits
  THEN (CHOOSE j \in i..Len(t) : t[j] \notin Digits /\ \A k \in i..(j - 1) : t[k] \in Digits) - 1
  ELSE Len(t)

\* A property set on an object: a present key keeps its place and takes the value.
ObjSet(keys, kids, k, v) ==
  IF \E i \in 1..Len(keys) : keys[i] = k
  THEN LET i == CHOOSE i \in 1..Len(keys) : keys[i] = k
       IN [keys |-> keys, kids |-> [kids EXCEPT ![i] = v]]
  ELSE [keys |-> Append(keys, k), kids |-> Append(kids, v)]

RECURSIVE ParseValue(_, _), ParseElements(_, _, _), ParseMembers(_, _, _, _)

\* After "[": elements separated by ",", closed by "]".
ParseElements(t, i, acc) ==
  LET r == ParseValue(t, i) IN
  IF ~r.ok THEN PFail
  ELSE LET p == SkipWs(t, r.pos) IN
       IF p > Len(t) THEN PFail
       ELSE IF t[p] = "]" THEN POk(JArr(Append(acc, r.val)), p + 1)
       ELSE IF t[p] = "," THEN ParseElements(t, p + 1, Append(acc, r.val))
       ELSE PFail

\* After "{": "key": value members separated by ",", closed by "}".
ParseMembers(t, i, keys, kids) ==
  LET a == SkipWs(t, i) IN
  IF a > Len(t) \/ t[a] # DQ THEN PFail
  ELSE LET k == ParseValue(t, a) IN
       IF ~k.ok THEN PFail
       ELSE LET c == SkipWs(t, k.pos) IN
            IF c > Len(t) \/ t[c] # ":" THEN PFail
            ELSE LET r == ParseValue(t, c + 1) IN
                 IF ~r.ok THEN PFail
                 ELSE LET o == ObjSet(keys, kids, k.val.s, r.val)
                          p == SkipWs(t, r.pos)
                      IN IF p > Len(t) THEN PFail
                         ELSE IF t[p] = "}" THEN POk(JObj(o.keys, o.kids), p + 1)
                         ELSE IF t[p] = "," THEN ParseMembers(t, p + 1, o.keys, o.kids)
                         ELSE PFail

ParseValue(t, i0) ==
  LET i == SkipWs(t, i0) IN
  IF i > Len(t) THEN PFail
  ELSE IF t[i] = "null" THEN POk(JNull, i + 1)
  ELSE IF t[i] \in Digits
       THEN LET e == DigitsEnd(t, i) IN POk(JNum(SubSeq(t, i, e)), e + 1)
  ELSE IF t[i] = DQ
       THEN IF \E j \in (i + 1)..Len(t) : t[j] = DQ
            THEN LET j == CHOOSE j \in (i + 1)..Len(t) :
                            t[j] = DQ /\ \A k \in (i + 1)..(j - 1) : t[k] # DQ
                 IN POk(JStr(SubSeq(t, i + 1, j - 1)), j + 1)
            ELSE PFail
  ELSE IF t[i] = "["
       THEN LET p == SkipWs(t, i + 1) IN
            IF p <= Len(t) /\ t[p] = "]" THEN POk(JArr(<<>>), p + 1)
            ELSE ParseElements(t, i + 1, <<>>)
  ELSE IF t[i] = "{"
       THEN LET p == SkipWs(t, i + 1) IN
            IF p <= Len(t) /\ t[p] = "}" THEN POk(JObj(<<>>, <<>>), p + 1)
            ELSE ParseMembers(t, i + 1, <<>>, <<>>)
  ELSE PFail

\* The text t holds the value r parsed from its start and then blanks only.
WholeText(t, r) ==
  IF r.ok /\ SkipWs(t, r.pos) > Len(t) THEN [ok |-> TRUE, val |-> r.val]
  ELSE [ok |-> FALSE, val |-> JNull]

\* JSON.parse: one value, blanks around it, nothing else.
JSONParse(t) == WholeText(t, ParseValue(t, 1))

(***************************************************************************)
(* utils/helpers.ts: cleanAndParseJSON                                     *)
(***************************************************************************)
\* A function's outcome: a returned value or a thrown Error with its message
\* (a sequence of text fragments).
Return(v) == [threw |-> FALSE, msg |-> <<>>, val |-> v]
Throw(m) == [threw |-> TRUE, msg |-> m, val |-> JNull]

\* The optional argument defaultVal: undefined, or a value.
NoDefault == [given |-> FALSE, val |-> JNull]
Default(v) == [given |-> TRUE, val |-> v]

\* The message of the SyntaxError JSON.parse throws (the engine chooses it).
SyntaxErrorMessage == "Unexpected token in JSON"

\* cleaned.match(/```(?:json)?\s*([\s\S]*?)\s*```/i): the first fence, an
\* optional json tag, blanks, then the shortest text up to blanks and the next
\* fence.  inner is match[1].
CodeBlockMatch(t) ==
  LET fences == {i \in 1..Len(t) : t[i] = FENCE} IN
  IF Cardinality(fences) < 2 THEN [matched |-> FALSE, inner |-> <<>>]
  ELSE LET i == CHOOSE i \in fences : \A k \in fences : i <= k
           a == IF t[i + 1] \in {"json", "JSON"} THEN i + 2 ELSE i + 1
           p == SkipWs(t, a)
           j == CHOOSE j \in fences : j >= p /\ \A k \in fences : k >= p => j <= k
           e == CHOOSE e \in p..j : (\A k \in e..(j - 1) : IsSpace(t[k]))
                                    /\ \A f \in p..(e - 1) : \E k \in f..(j - 1) : ~IsSpace(t[k])
       IN [matched |-> TRUE, inner |-> SubSeq(t, p, e - 1)]

\* Lines 20-22: if (match && match[1]) cleaned = match[1].trim()
MatchInner(cleaned, match) ==
  IF match.matched /\ match.inner # <<>> THEN Trim(match.inner) ELSE cleaned

\* Lines 17-22: the inside of a fenced block when there is one.
FencedInner(cleaned) == MatchInner(cleaned, CodeBlockMatch(cleaned))

\* Lines 13-22: trim, then the inside of a fenced block when there is one.
Unfenced(text) == FencedInner(Trim(text))

\* Lines 28-35: the first of the two opening delimiters; -1 when none.
FirstOf(firstOpenBrace, firstOpenBracket) ==
  IF firstOpenBrace # -1 /\ firstOpenBracket # -1
  THEN (IF firstOpenBrace < firstOpenBracket THEN firstOpenBrace ELSE firstOpenBracket)
  ELSE IF firstOpenBrace # -1 THEN firstOpenBrace
  ELSE IF firstOpenBracket # -1 THEN firstOpenBracket
  ELSE -1

\* Lines 25-35: the first "{" or "[", whichever comes first; -1 when none.
StartIndex(cleaned) == FirstOf(IndexOf(cleaned, "{"), IndexOf(cleaned, "["))

\* The span cut one symbol short of the closing delimiter.
SpanShort(cleaned, startIndex, endIndex) ==
  IF endIndex # -1 /\ endIndex > startIndex
  THEN Substring(cleaned, startIndex, endIndex)
  ELSE cleaned

\* Lines 47-53: the end is the last closing delimiter of the start's type;
\* the span is cut out when the end lies after the start.
Span(cleaned, startIndex, endIndex) ==
  IF endIndex # -1 /\ endIndex > startIndex
  THEN Substring(cleaned, startIndex, endIndex + 1)
  ELSE cleaned

\* An end that is the last closing delimiter of either type.
NarrowedToAnyClose(cleaned, startIndex) ==
  IF startIndex = -1 THEN cleaned
  ELSE Span(cleaned, startIndex,
            IF LastIndexOf(cleaned, "}") > LastIndexOf(cleaned, "]")
            THEN LastIndexOf(cleaned, "}") ELSE LastIndexOf(cleaned, "]"))

\* Lines 37-54, for the start found.
NarrowedFrom(cleaned, startIndex) ==
  IF startIndex = -1 THEN cleaned
  ELSE Span(cleaned, startIndex,
            IF cleaned[startIndex + 1] = "{" THEN LastIndexOf(cleaned, "}")
            ELSE LastIndexOf(cleaned, "]"))

\* Lines 25-54: the span from the start to the last closing delimiter of its type.
Narrowed(cleaned) == NarrowedFrom(cleaned, StartIndex(cleaned))

Cleaned(text) == Narrowed(Unfenced(text))

\* A catch that ignores the default.
ParsedOrThrow(r, defaultVal) ==
  IF r.ok THEN Return(r.val)
  ELSE Throw(<<"Failed to parse AI response as JSON: ", SyntaxErrorMessage>>)

\* Lines 56-63: the parsed value; on a parse error the default when one was
\* given, else the error.
ParsedOr(r, defaultVal) ==
  IF r.ok THEN Return(r.val)
  ELSE IF defaultVal.given THEN Return(defaultVal.val)
  ELSE Throw(<<"Failed to parse AI response as JSON: ", SyntaxErrorMessage>>)

cleanAndParseJSON(text, defaultVal) ==
  IF text = <<>>
  THEN (IF defaultVal.given THEN Return(defaultVal.val)
        ELSE Throw(<<"Received empty text for JSON parsing">>))
  ELSE ParsedOr(JSONParse(Cleaned(text)), defaultVal)

(***************************************************************************)
(* JavaScript values as the controller reads them: a parsed JSON value or  *)
(* undefined; property reads, coercions, Object.entries, String().         *)
(***************************************************************************)
JUndef == [t |-> "undef", s |-> <<>>, keys |-> <<>>, kids |-> <<>>]

IsNullish(v) == v.t \in {"null", "undef"}

\* v.k for a non-nullish v: an own property of an object, undefined otherwise.
Prop(v, k) ==
  IF v.t = "obj" /\ \E i \in 1..Len(v.keys) : v.keys[i] = k
  THEN v.kids[CHOOSE i \in 1..Len(v.keys) : v.keys[i] = k]
  ELSE JUndef

DigitVal(d) == CASE d = "0" -> 0 [] d = "1" -> 1 [] d = "2" -> 2 [] OTHER -> 0

RECURSIVE NumVal(_)
NumVal(ds) == IF ds = <<>> THEN 0 ELSE 10 * NumVal(SubSeq(ds, 1, Len(ds) - 1)) + DigitVal(ds[Len(ds)])

\* v.length for a non-nullish v: an array's or a string's length, the own
\* property "length" of an object, undefined for a number.
LengthOf(v) ==
  CASE v.t = "arr" -> [nan |-> FALSE, n |-> Len(v.kids)]
    [] v.t = "str" -> [nan |-> FALSE, n |-> Len(v.s)]
    [] v.t = "obj" /\ Prop(v, <<"length">>).t = "num" ->
         [nan |-> FALSE, n |-> NumVal(Prop(v, <<"length">>).s)]
    [] OTHER -> [nan |-> TRUE, n |-> 0]

RECURSIVE ToStr(_), JoinElems(_)
\* Array.prototype.join(","): null and undefined elements give the empty text.
JoinElems(kids) ==
  IF kids = <<>> THEN <<>>
  ELSE LET h == IF IsNullish(kids[1]) THEN <<>> ELSE ToStr(kids[1])
       IN IF Len(kids) = 1 THEN h ELSE h \o <<",">> \o JoinElems(Tail(kids))

\* String(v), and v inside a template literal.
ToStr(v) ==
  CASE v.t = "str" -> v.s
    [] v.t = "num" -> v.s
    [] v.t = "null" -> <<"null">>
    [] v.t = "undef" -> <<"undefined">>
    [] v.t = "arr" -> JoinElems(v.kids)
    [] v.t = "obj" -> <<"[object Object]">>

\* Number(v) of a number, null or undefined (the operands of v < 100 the
\* model meets); any other value is not a number here unless it reads as digits.
ToNumber(v) ==
  CASE v.t = "num" -> [nan |-> FALSE, n |-> NumVal(v.s)]
    [] v.t = "null" -> [nan |-> FALSE, n |-> 0]
    [] v.t = "str" /\ v.s # <<>> /\ (\A i \in 1..Len(v.s) : v.s[i] \in Digits) ->
         [nan |-> FALSE, n |-> NumVal(v.s)]
    [] OTHER -> [nan |-> TRUE, n |-> 0]

\* v || fallback reads v's truthiness.
Truthy(v) ==
  CASE v.t \in {"null", "undef"} -> FALSE
    [] v.t = "str" -> v.s # <<>>
    [] v.t = "num" -> NumVal(v.s) # 0
    [] OTHER -> TRUE

TerraformFile(filename, content) == [filename |-> filename, content |-> content]

\* Object.entries(result).map(([filename, content]) => ({filename, content: String(content)})):
\* an object's own properties in order, an array's elements under their
\* indices, nothing for a number or a string of no characters; null throws.
RECURSIVE IndexedFiles(_, _), ObjectFiles(_, _), SymbolFiles(_, _)
IndexedFiles(kids, i) ==
  IF i > Len(kids) THEN <<>>
  ELSE <<TerraformFile(<<ToString(i - 1)>>, ToStr(kids[i]))>> \o IndexedFiles(kids, i + 1)

ObjectFiles(keys, kids) ==
  IF keys = <<>> THEN <<>>
  ELSE <<TerraformFile(keys[1], ToStr(kids[1]))>> \o ObjectFiles(Tail(keys), Tail(kids))

SymbolFiles(str, i) ==
  IF i > Len(str) THEN <<>>
  ELSE <<TerraformFile(<<ToString(i - 1)>>, <<str[i]>>)>> \o SymbolFiles(str, i + 1)

EntriesToFiles(result) ==
  CASE IsNullish(result) -> Throw(<<"Cannot convert undefined or null to object">>)
    [] result.t = "obj" -> Return(ObjectFiles(result.keys, result.kids))
    [] result.t = "arr" -> Return(IndexedFiles(result.kids, 1))
    [] result.t = "str" -> Return(SymbolFiles(result.s, 1))
    [] OTHER -> Return(<<>>)

(***************************************************************************)
(* services/gemini.ts: the generation service and the agents.  A reply is  *)
(* what one call meets: no API key (getAI throws), a rejected request, or  *)
(* a response with its text (the empty text for a response without text).  *)
(***************************************************************************)
NoKey == [kind |-> "nokey", text |-> <<>>]
ServiceError == [kind |-> "error", text |-> <<>>]
Text(t) == [kind |-> "text", text |-> t]

\* getAI() followed by await ai.models.generateContent(...)
generateContent(reply) ==
  CASE reply.kind = "nokey" ->
         Throw(<<"Critical Error: API_KEY is missing. Please check your environment configuration.">>)
    [] reply.kind = "error" -> Throw(<<"generation service error">>)
    [] reply.kind = "text" -> Return(JStr(reply.text))

\* A response that is parsed without the check for an empty text.
ParseResponseUnchecked(response, onEmpty, defaultVal) ==
  IF response.threw THEN response
  ELSE cleanAndParseJSON(response.val.s, defaultVal)

\* const text = response.text; if (!text) <empty>; return cleanAndParseJSON(text[, default])
\* inside the agent's try: a throw of the call, of the empty check or of the
\* parse leaves through the same catch.
ParseResponse(response, onEmpty, defaultVal) ==
  IF response.threw THEN response
  ELSE IF response.val.s = <<>> THEN onEmpty
  ELSE cleanAndParseJSON(response.val.s, defaultVal)

\* Object.entries(result).map(...) applied to the parsed result, inside the try.
ToFiles(result) == IF result.threw THEN result ELSE EntriesToFiles(result.val)

\* catch (error) { throw new Error(`<prefix>${error.message}`) } of agents 1-4.
Rethrow(prefix, body) == IF body.threw THEN Throw(prefix \o body.msg) ELSE body

\* An agent without its catch.
Uncontained(body, fallback) == body

\* catch (error) { return <fallback> } of agents 5-9.
Contained(body, fallback) == IF body.threw THEN Return(fallback) ELSE body

\* What a call can meet other than a usable text: no key, a rejected request,
\* a response without text, a text that is not JSON.
Failures == {NoKey, ServiceError, Text(<<>>), Text(<<"w">>)}

\* Agent 1: lines 31-73.
analyzeArchitectureImage(reply) ==
  Rethrow(<<"Agent 1 (Architect) failed: ">>,
          ParseResponse(generateContent(reply),
                        Throw(<<"Received empty response from Agent 1 (Analysis).">>), NoDefault))

\* Agent 2: lines 79-138.
generateTerraformCode(analysis, config, customModules, reply) ==
  Rethrow(<<"Agent 2 (Generator) failed: ">>,
          ToFiles(ParseResponse(generateContent(reply),
                                Throw(<<"Received empty response from Agent 2 (Generation).">>),
                                NoDefault)))

\* Agent 3: lines 144-184.
validateTerraformCode(files, reply) ==
  Rethrow(<<"Agent 3 (Validator) failed: ">>,
          ParseResponse(generateContent(reply),
                        Throw(<<"Received empty response from Agent 3 (Validation).">>), NoDefault))

\* Agent 4: lines 190-235.
finalizeTerraformCode(files, validation, config, reply) ==
  Rethrow(<<"Agent 4 (Finalizer) failed: ">>,
          ToFiles(ParseResponse(generateContent(reply),
                                Throw(<<"Received empty response from Agent 4 (Finalizer).">>),
                                NoDefault)))

README == <<"README.md">>

\* Lines 264-267: response.text || "# Project Documentation\n\nGeneration failed."
DocumentationFile(response) ==
  IF response.threw THEN response
  ELSE Return(TerraformFile(README,
                IF response.val.s # <<>> THEN response.val.s
                ELSE <<"# Project Documentation\n\nGeneration failed.">>))

\* Agent 5: lines 241-274.  The catch returns the placeholder file.
generateProjectDocumentation(files, analysis, reply) ==
  Contained(DocumentationFile(generateContent(reply)),
            TerraformFile(README, <<"# Documentation Error\nCould not generate documentation.">>))

CostDefault ==
  JObj(<< <<"totalMonthlyCost">>, <<"currency">>, <<"breakdown">> >>,
       << JStr(<<"N/A">>), JStr(<<"USD">>), JArr(<<>>) >>)

\* A catch that returns an estimate without fields.
estimateProjectCostBare(files, reply) ==
  Contained(ParseResponse(generateContent(reply), Throw(<<"Empty response">>), NoDefault),
            JObj(<<>>, <<>>))

\* Agent 6: lines 280-330.  The catch returns the N/A estimate.
estimateProjectCost(files, reply) ==
  Contained(ParseResponse(generateContent(reply), Throw(<<"Empty response">>), NoDefault),
            CostDefault)

\* Agent 7: lines 336-381.  The catch returns no findings.
performSecurityAudit(files, reply) ==
  Contained(ParseResponse(generateContent(reply), Return(JArr(<<>>)), Default(JArr(<<>>))),
            JArr(<<>>))

\* utils/helpers.ts: sanitizeMermaidCode: the fence markers (with their
\* mermaid tag) removed, then trim.
RECURSIVE StripFences(_)
StripFences(t) ==
  IF t = <<>> THEN <<>>
  ELSE IF t[1] = FENCE
       THEN (IF Len(t) >= 2 /\ t[2] = "mermaid" THEN StripFences(SubSeq(t, 3, Len(t)))
             ELSE StripFences(Tail(t)))
  ELSE <<t[1]>> \o StripFences(Tail(t))

sanitizeMermaidCode(text) == IF text = <<>> THEN <<>> ELSE Trim(StripFences(text))

\* Line 405: return sanitizeMermaidCode(response.text || "")
DiagramCode(response) ==
  IF response.threw THEN response ELSE Return(JStr(sanitizeMermaidCode(response.val.s)))

\* Agent 8: lines 387-410.  The catch returns the empty diagram.
generateMermaidDiagram(files, reply) ==
  Contained(DiagramCode(generateContent(reply)), JStr(<<>>))

\* A stage that is never skipped.
NeverSkipped(config) == FALSE

\* Line 417: no DevOps output was asked for.
DevOpsSkipped(config) == ~config.generateCICD /\ ~config.generateAnsible

\* Agent 9: lines 416-450.  The catch returns no files.
generateDevOpsFiles(files, config, reply) ==
  IF DevOpsSkipped(config) THEN Return(<<>>)
  ELSE Contained(ToFiles(ParseResponse(generateContent(reply), Return(JObj(<<>>, <<>>)),
                                       Default(JObj(<<>>, <<>>)))),
                 <<>>)

(***************************************************************************)
(* utils/helpers.ts: extractTextFilesFromZip.  An archive is valid or not  *)
(* and lists its entries in order; a file name is a sequence of symbols,   *)
(* its first the leading "." or "__MACOSX" when it has one, its last the   *)
(* extension.                                                              *)
(***************************************************************************)
AllowedExtensions == {".tf", ".md", ".json", ".yaml", ".txt"}

StartsWith(filename, prefix) == filename # <<>> /\ filename[1] = prefix
EndsWith(filename, suffix) == filename # <<>> /\ filename[Len(filename)] = suffix

\* Line 127: directories, MacOS metadata and hidden files are skipped.
SkippedEntry(e) ==
  e.dir \/ StartsWith(e.filename, "__MACOSX") \/ StartsWith(e.filename, ".")

\* A filter that lets every file through.
ReadAnyEntry(e) == TRUE

\* Line 130: only text files relevant to Terraform modules are read.
ReadEntry(e) == \E x \in AllowedExtensions : EndsWith(e.filename, x)

RECURSIVE ExtractEntries(_, _)
ExtractEntries(entries, files) ==
  IF entries = <<>> THEN Return(files)
  ELSE LET e == entries[1] IN
       IF SkippedEntry(e) \/ ~ReadEntry(e) THEN ExtractEntries(Tail(entries), files)
       ELSE IF ~e.readable THEN Throw(<<"read error">>)
       ELSE ExtractEntries(Tail(entries), Append(files, TerraformFile(e.filename, e.content)))

\* Lines 136-139: any error of the loading gives the one generic error.
LoadFailure(body) ==
  IF body.threw
  THEN Throw(<<"Failed to extract custom modules. Please ensure it is a valid ZIP file.">>)
  ELSE body

extractTextFilesFromZip(file) ==
  LoadFailure(IF ~file.valid THEN Throw(<<"not a zip file">>)
              ELSE ExtractEntries(file.entries, <<>>))

(***************************************************************************)
(* The controller: the active project and the state updaters               *)
(***************************************************************************)
NoProject == [id |-> 0]

\* fx when no helper is being exercised on its own.
NoCall == [op |-> "none"]

IsNull(p) == p.id = 0

\* The status of the active project.
Status == IF IsNull(currentProject) THEN "NONE" ELSE currentProject.status

Sequential == <<"ANALYZING", "GENERATING", "REVIEWING", "FINALIZING">>
StatusOrder == Sequential \o <<"POST_PROCESSING", "COMPLETED">>

\* Lines 52-69.
NewProject(id, config) ==
  [ id |-> id, status |-> "ANALYZING", analysis |-> JNull, code |-> <<>>,
    customModules |-> <<>>, validation |-> JNull, cost |-> JNull,
    security |-> JArr(<<>>), mermaidDiagram |-> JNull, chatHistory |-> <<>>,
    error |-> <<>>, logs |-> << <<"Starting enterprise pipeline...">> >>,
    config |-> config ]

\* An update applied to whichever project is active.
updateProjectAny(prev, id, updates) ==
  IF IsNull(prev) THEN prev
  ELSE [f \in DOMAIN prev |->
          IF f = "logs"
          THEN (IF "logs" \in DOMAIN updates THEN prev.logs \o updates.logs ELSE prev.logs)
          ELSE IF f \in DOMAIN updates THEN updates[f] ELSE prev[f]]

\* An update whose log lines take the place of the log.
updateProjectPlain(prev, id, updates) ==
  IF IsNull(prev) \/ prev.id # id THEN prev
  ELSE [f \in DOMAIN prev |-> IF f \in DOMAIN updates THEN updates[f] ELSE prev[f]]

\* Lines 35-41: the updates are applied to the project with this id only, and
\* the log lines of the updates are appended to the log.
updateProject(prev, id, updates) ==
  IF IsNull(prev) \/ prev.id # id THEN prev
  ELSE [f \in DOMAIN prev |->
          IF f = "logs"
          THEN (IF "logs" \in DOMAIN updates THEN prev.logs \o updates.logs ELSE prev.logs)
          ELSE IF f \in DOMAIN updates THEN updates[f] ELSE prev[f]]

\* Lines 43-48.
addLog(prev, id, message) ==
  IF IsNull(prev) \/ prev.id # id THEN prev
  ELSE [prev EXCEPT !.logs = Append(prev.logs, message)]

\* Line 88.
SetCustomModules(prev, id, modules) ==
  IF ~IsNull(prev) /\ prev.id = id THEN [prev EXCEPT !.customModules = modules] ELSE prev

\* A catch that logs a second line.
CatchVerbose(prev, id, err) ==
  updateProject(prev, id,
    [ status |-> "ERROR",
      error |-> IF err.msg # <<>> THEN err.msg ELSE <<"An unknown error occurred">>,
      logs |-> << <<"CRITICAL FAILURE: ">> \o (IF err.msg # <<>> THEN err.msg ELSE <<"undefined">>),
                  <<"Pipeline stopped.">> >> ])

\* A catch that also drops the files.
CatchClearing(prev, id, err) ==
  updateProject(prev, id,
    [ status |-> "ERROR", code |-> <<>>,
      error |-> IF err.msg # <<>> THEN err.msg ELSE <<"An unknown error occurred">>,
      logs |-> << <<"CRITICAL FAILURE: ">> \o (IF err.msg # <<>> THEN err.msg ELSE <<"undefined">>) >> ])

\* A catch that records a generic error.
CatchGeneric(prev, id, err) ==
  updateProject(prev, id,
    [ status |-> "ERROR", error |-> <<"An unknown error occurred">>,
      logs |-> << <<"CRITICAL FAILURE: ">> \o err.msg >> ])

\* Lines 160-167: the catch of startProject.
CatchUpdate(prev, id, err) ==
  updateProject(prev, id,
    [ status |-> "ERROR",
      error |-> IF err.msg # <<>> THEN err.msg ELSE <<"An unknown error occurred">>,
      logs |-> << <<"CRITICAL FAILURE: ">> \o (IF err.msg # <<>> THEN err.msg ELSE <<"undefined">>) >> ])

(***************************************************************************)
(* startProject: one run.  run holds the locals of the asynchronous        *)
(* function and its position (pc names the await it is suspended at);      *)
(* calls lists the agents invoked so far, failed the agent whose promise   *)
(* rejected and thrown the error the catch received.  statusTrace lists    *)
(* the values the status of the run's project has taken.                   *)
(***************************************************************************)
EnrichStages == {"document", "cost", "security", "diagram", "devops"}

\* A promise of the parallel phase: pending, or fulfilled with the agent's
\* outcome; failure tells that the agent's call met one of the failures.
Pending == [done |-> FALSE, out |-> Return(JNull), failure |-> FALSE]
Settled(out, failure) == [done |-> TRUE, out |-> out, failure |-> failure]

NoRun ==
  [ pc |-> "none", id |-> 0, config |-> [generateCICD |-> FALSE, generateAnsible |-> FALSE],
    modules |-> <<>>, analysis |-> JNull, generatedCode |-> <<>>, validation |-> JNull,
    finalCode |-> <<>>, settled |-> [s \in EnrichStages |-> Pending],
    calls |-> <<>>, skippedFinalizer |-> FALSE, failed |-> "none", thrown |-> Throw(<<>>),
    moduleFile |-> <<>>, inputs |-> <<>> ]

\* The arguments the call of the agent named stage was made with (inputs
\* holds them call by call, beside calls).
Passed(r, stage) == r.inputs[CHOOSE i \in 1..Len(r.calls) : r.calls[i] = stage]

\* The status values an update writes are recorded while the run's project is active.
Traced(statuses) ==
  IF ~IsNull(currentProject) /\ currentProject.id = run.id
  THEN statusTrace \o statuses ELSE statusTrace

\* Lines 160-167, entered with the error err; stage is the agent that threw
\* it ("none" when the controller's own code threw).
Catch(prev, r, stage, err) ==
  /\ currentProject' = CatchUpdate(prev, r.id, err)
  /\ run' = [r EXCEPT !.pc = "done", !.failed = stage, !.thrown = err]
  /\ statusTrace' = Traced(<<"ERROR">>)

\* Lines 50-71 and 74-77: a click on the upload zone, shown while there is
\* no project.  The settings are read as they are at this moment.
StartProject(hasModuleFile) ==
  /\ run.pc = "none"
  /\ IsNull(currentProject)
  /\ \E id \in {1} :
        /\ currentProject' =
             IF hasModuleFile
             THEN addLog(NewProject(id, agentConfig), id,
                         <<"System: Extracting custom modules context...">>)
             ELSE SetCustomModules(NewProject(id, agentConfig), id, <<>>)
        /\ run' = [run EXCEPT !.pc = IF hasModuleFile THEN "modules" ELSE "base64",
                              !.id = id, !.config = agentConfig]
        /\ statusTrace' = <<"ANALYZING">>
  /\ UNCHANGED <<agentConfig, chats, fx>>

\* A loading whose failure goes to the catch of the run.
ModulesSettleFatal(file) ==
  /\ run.pc = "modules"
  /\ \E r \in {extractTextFilesFromZip(file)} :
        IF r.threw
        THEN Catch(currentProject, [run EXCEPT !.moduleFile = <<file>>], "none", r)
        ELSE /\ currentProject' =
                  SetCustomModules(addLog(currentProject, run.id,
                                          <<"System: Loaded ", ToString(Len(r.val)),
                                            " custom module files.">>),
                                   run.id, r.val)
             /\ run' = [run EXCEPT !.pc = "base64", !.modules = r.val,
                                   !.moduleFile = <<file>>]
             /\ UNCHANGED statusTrace
  /\ UNCHANGED <<agentConfig, chats, fx>>

\* Lines 78-88: extractTextFilesFromZip settles on the archive that was
\* passed to startProject (kept in run.moduleFile once it has been read).
ModulesSettle(file) ==
  /\ run.pc = "modules"
  /\ \E r \in {extractTextFilesFromZip(file)} :
        IF r.threw
        THEN /\ currentProject' =
                  SetCustomModules(addLog(currentProject, run.id,
                                          <<"System Error: Failed to load modules - ">> \o r.msg),
                                   run.id, <<>>)
             /\ run' = [run EXCEPT !.pc = "base64", !.modules = <<>>,
                                   !.moduleFile = <<file>>]
        ELSE /\ currentProject' =
                  SetCustomModules(addLog(currentProject, run.id,
                                          <<"System: Loaded ", ToString(Len(r.val)),
                                            " custom module files.">>),
                                   run.id, r.val)
             /\ run' = [run EXCEPT !.pc = "base64", !.modules = r.val,
                                   !.moduleFile = <<file>>]
  /\ UNCHANGED <<agentConfig, chats, statusTrace, fx>>

\* Lines 91-95: fileToBase64 settles; on success Agent 1 is invoked.  A
\* FileReader error rejects with an event that has no message.
Base64Settle(ok) ==
  /\ run.pc = "base64"
  /\ IF ok
     THEN /\ currentProject' = addLog(currentProject, run.id,
                                      <<"Agent 1 (Architect): Analyzing diagram topology...">>)
          /\ run' = [run EXCEPT !.pc = "s1", !.calls = Append(@, "analyze"),
                                !.inputs = Append(@, [image |-> "base64"])]
          /\ UNCHANGED statusTrace
     ELSE Catch(currentProject, run, "none", Throw(<<>>))
  /\ UNCHANGED <<agentConfig, chats, fx>>

\* Lines 95-103: Agent 1 settles; on success Agent 2 is invoked.
Stage1Settle(reply) ==
  /\ run.pc = "s1"
  /\ \E r \in {analyzeArchitectureImage(reply)} :
        IF r.threw THEN Catch(currentProject, run, "analyze", r)
        ELSE IF IsNullish(r.val)
        THEN Catch(currentProject, run, "none",
                   Throw(<<"Cannot read properties of null (reading 'provider')">>))
        ELSE /\ currentProject' = updateProject(currentProject, run.id,
                  [ analysis |-> r.val, status |-> "GENERATING",
                    logs |-> << <<"Agent 1: Detected ">> \o ToStr(Prop(r.val, <<"provider">>))
                                  \o <<" architecture in ">>
                                  \o (IF Truthy(Prop(r.val, <<"region">>))
                                      THEN ToStr(Prop(r.val, <<"region">>))
                                      ELSE <<"us-east-1">>) \o <<".">>,
                                <<"Agent 2 (Generator): Drafting Infrastructure as Code...">> >> ])
             /\ run' = [run EXCEPT !.pc = "s2", !.analysis = r.val,
                                   !.calls = Append(@, "generate"),
                                   !.inputs = Append(@, [ analysis |-> r.val,
                                                          config |-> run.config,
                                                          modules |-> run.modules ])]
             /\ statusTrace' = Traced(<<"GENERATING">>)
  /\ UNCHANGED <<agentConfig, chats, fx>>

\* Lines 103-111: Agent 2 settles; on success Agent 3 is invoked.
Stage2Settle(reply) ==
  /\ run.pc = "s2"
  /\ \E r \in {generateTerraformCode(Passed(run, "generate").analysis,
                                      Passed(run, "generate").config,
                                      Passed(run, "generate").modules, reply)} :
        IF r.threw THEN Catch(currentProject, run, "generate", r)
        ELSE /\ currentProject' = updateProject(currentProject, run.id,
                  [ code |-> r.val, status |-> "REVIEWING",
                    logs |-> << <<"Agent 2: Code generated.">>,
                                <<"Agent 3 (Sentinel): Reviewing for compliance...">> >> ])
             /\ run' = [run EXCEPT !.pc = "s3", !.generatedCode = r.val,
                                   !.calls = Append(@, "validate"),
                                   !.inputs = Append(@, [files |-> r.val])]
             /\ statusTrace' = Traced(<<"REVIEWING">>)
  /\ UNCHANGED <<agentConfig, chats, fx>>

\* security.length inside a template literal.
LengthText(v) ==
  IF LengthOf(v).nan THEN <<"undefined">> ELSE <<ToString(LengthOf(v).n)>>

\* Agents of the parallel phase that are given the files of stage 2.
EnrichInputsDraft(r, finalCode) ==
  << [files |-> r.generatedCode, analysis |-> r.analysis], [files |-> r.generatedCode],
     [files |-> r.generatedCode], [files |-> r.generatedCode],
     [files |-> r.generatedCode, config |-> r.config] >>

\* Lines 134-140: the arguments of the five calls inside Promise.all.
EnrichInputs(r, finalCode) ==
  << [files |-> finalCode, analysis |-> r.analysis], [files |-> finalCode],
     [files |-> finalCode], [files |-> finalCode],
     [files |-> finalCode, config |-> r.config] >>

\* Lines 125-140: the status becomes POST_PROCESSING and the five agents of
\* the parallel phase are invoked.  Agent 9 returns at once when no DevOps
\* output was asked for.
PostProcess(prev, r, finalCode, statuses) ==
  /\ currentProject' = updateProject(prev, r.id,
       [ code |-> finalCode, status |-> "POST_PROCESSING",
         logs |-> << <<"Starting Parallel Agents: Documentation, FinOps, Security, Visualization...">> >> ])
  /\ run' = [r EXCEPT !.pc = "barrier", !.finalCode = finalCode,
                      !.settled = [s \in EnrichStages |->
                                     IF s = "devops" /\ DevOpsSkipped(r.config)
                                     THEN Settled(generateDevOpsFiles(finalCode, r.config, NoKey), FALSE)
                                     ELSE Pending],
                      !.calls = @ \o <<"document", "cost", "security", "diagram", "devops">>,
                      !.inputs = @ \o EnrichInputs(r, finalCode)]
  /\ statusTrace' = Traced(statuses)

\* Line 120: validation.score < 100 || validation.issues.length > 0.  The
\* right operand is read only when the left is false, and reading the length
\* of a missing issues list throws.
\* A condition that looks at the score only.
ScoreOnly(score, issues) == Return(~score.nan /\ score.n < 100)

ScoreOrIssues(score, issues) ==
  IF ~score.nan /\ score.n < 100 THEN Return(TRUE)
  ELSE IF IsNullish(issues)
       THEN Throw(<<"Cannot read properties of undefined (reading 'length')">>)
  ELSE Return(~LengthOf(issues).nan /\ LengthOf(issues).n > 0)

NeedsFix(validation) ==
  ScoreOrIssues(ToNumber(Prop(validation, <<"score">>)), Prop(validation, <<"issues">>))

\* Lines 112-117: the update made once the review is in.
Reviewed(prev, id, validation) ==
  updateProject(prev, id,
    [ validation |-> validation, status |-> "FINALIZING",
      logs |-> << <<"Agent 3: Review Score: ">> \o ToStr(Prop(validation, <<"score">>))
                    \o <<"/100.">>,
                  <<"Agent 4 (Finalizer): Polishing and formatting...">> >> ])

\* Lines 111-129: Agent 3 settles; the status becomes FINALIZING, then Agent 4
\* is invoked, or skipped when the review is perfect, in which case the run
\* goes on to the parallel phase in the same turn.
Stage3Settle(reply) ==
  /\ run.pc = "s3"
  /\ \E r \in {validateTerraformCode(Passed(run, "validate").files, reply)} :
        IF r.threw THEN Catch(currentProject, run, "validate", r)
        ELSE IF IsNullish(r.val)
        THEN Catch(currentProject, run, "none",
                   Throw(<<"Cannot read properties of null (reading 'score')">>))
        ELSE \E fix \in {NeedsFix(r.val)},
                finalizing \in {Reviewed(currentProject, run.id, r.val)} :
          IF fix.threw
          THEN /\ currentProject' = CatchUpdate(finalizing, run.id, fix)
               /\ run' = [run EXCEPT !.pc = "done", !.validation = r.val, !.thrown = fix]
               /\ statusTrace' = Traced(<<"FINALIZING", "ERROR">>)
          ELSE IF fix.val
          THEN /\ currentProject' = finalizing
               /\ run' = [run EXCEPT !.pc = "s4", !.validation = r.val,
                                     !.calls = Append(@, "finalize"),
                                     !.inputs = Append(@, [ files |-> run.generatedCode,
                                                            validation |-> r.val,
                                                            config |-> run.config ])]
               /\ statusTrace' = Traced(<<"FINALIZING">>)
          ELSE PostProcess(finalizing,
                           [run EXCEPT !.validation = r.val, !.skippedFinalizer = TRUE],
                           run.generatedCode, <<"FINALIZING", "POST_PROCESSING">>)
  /\ UNCHANGED <<agentConfig, chats, fx>>

\* Lines 121-129: Agent 4 settles; on success the parallel phase starts.
Stage4Settle(reply) ==
  /\ run.pc = "s4"
  /\ \E r \in {finalizeTerraformCode(Passed(run, "finalize").files,
                                      Passed(run, "finalize").validation,
                                      Passed(run, "finalize").config, reply)} :
        IF r.threw THEN Catch(currentProject, run, "finalize", r)
        ELSE PostProcess(addLog(currentProject, run.id, <<"Agent 4: Applied fixes.">>),
                         run, r.val, <<"POST_PROCESSING">>)
  /\ UNCHANGED <<agentConfig, chats, fx>>

\* The agent of the parallel phase named s, given the reply its call meets.
EnrichAgent(s, r, reply) ==
  CASE s = "document" ->
         generateProjectDocumentation(Passed(r, s).files, Passed(r, s).analysis, reply)
    [] s = "cost" -> estimateProjectCost(Passed(r, s).files, reply)
    [] s = "security" -> performSecurityAudit(Passed(r, s).files, reply)
    [] s = "diagram" -> generateMermaidDiagram(Passed(r, s).files, reply)
    [] s = "devops" -> generateDevOpsFiles(Passed(r, s).files, Passed(r, s).config, reply)

\* An agent of the parallel phase that writes its result to the project itself.
EnrichSettleWriting(s, reply) ==
  /\ run.pc = "barrier"
  /\ ~run.settled[s].done
  /\ \E out \in {EnrichAgent(s, run, reply)} :
        /\ run' = [run EXCEPT !.settled[s] = Settled(out, reply \in Failures)]
        /\ currentProject' = IF s = "cost" /\ ~out.threw
                              THEN updateProject(currentProject, run.id, [cost |-> out.val])
                              ELSE currentProject
        /\ UNCHANGED statusTrace
  /\ UNCHANGED <<agentConfig, chats, fx>>

\* Line 134: one promise of the Promise.all settles.  A rejection rejects the
\* Promise.all at once and the catch runs.
EnrichStep(s, reply) ==
  /\ run.pc = "barrier"
  /\ ~run.settled[s].done
  /\ \E out \in {EnrichAgent(s, run, reply)} :
        IF out.threw THEN Catch(currentProject, run, s, out)
        ELSE /\ run' = [run EXCEPT !.settled[s] = Settled(out, reply \in Failures)]
             /\ UNCHANGED <<currentProject, statusTrace>>

EnrichSettle(s, reply) ==
  /\ EnrichStep(s, reply)
  /\ UNCHANGED <<agentConfig, chats, fx>>

\* The same step, with the order of the settlements written down in fx.
OrderedSettle(s, reply) ==
  /\ EnrichStep(s, reply)
  /\ fx' = [fx EXCEPT !.order = Append(@, [stage |-> s, reply |-> reply])]
  /\ UNCHANGED <<agentConfig, chats>>

\* The files in the order in which Document and DevOps settled.
ArrivalFiles(finalCode, devopsFiles, docs) ==
  IF /\ fx.op = "order"
     /\ \E i, j \in 1..Len(fx.order) :
          i < j /\ fx.order[i].stage = "document" /\ fx.order[j].stage = "devops"
  THEN finalCode \o <<docs>> \o devopsFiles
  ELSE finalCode \o devopsFiles \o <<docs>>

\* Line 142.
AllFiles(finalCode, devopsFiles, docs) == finalCode \o devopsFiles \o <<docs>>

\* Lines 134-158: all five promises are fulfilled; the results are merged in
\* one update.  Reading cost.totalMonthlyCost or security.length of null throws.
BarrierJoin ==
  /\ run.pc = "barrier"
  /\ \A s \in EnrichStages : run.settled[s].done
  /\ \E docs \in {run.settled["document"].out.val},
        cost \in {run.settled["cost"].out.val},
        security \in {run.settled["security"].out.val},
        diagram \in {run.settled["diagram"].out.val},
        devopsFiles \in {run.settled["devops"].out.val} :
        IF IsNullish(cost)
        THEN Catch(currentProject, run, "none",
                   Throw(<<"Cannot read properties of null (reading 'totalMonthlyCost')">>))
        ELSE IF IsNullish(security)
        THEN Catch(currentProject, run, "none",
                   Throw(<<"Cannot read properties of null (reading 'length')">>))
        ELSE /\ currentProject' = updateProject(currentProject, run.id,
                  [ code |-> AllFiles(run.finalCode, devopsFiles, docs), cost |-> cost, security |-> security,
                    mermaidDiagram |-> diagram, status |-> "COMPLETED",
                    logs |-> << <<"Agent 5 (Documentor): README created.">>,
                                <<"Agent 6 (FinOps): Estimated cost ">>
                                  \o ToStr(Prop(cost, <<"totalMonthlyCost">>)) \o <<".">>,
                                <<"Agent 7 (Sentinel): Found ">> \o LengthText(security)
                                  \o <<" findings.">>,
                                <<"Agent 8 (Visualizer): Diagram rendered.">>,
                                <<"Agent 9 (DevOps): CI/CD & Automation files added.">>,
                                <<"Pipeline Successfully Completed.">> >> ])
             /\ run' = [run EXCEPT !.pc = "done"]
             /\ statusTrace' = Traced(<<"COMPLETED">>)
  /\ UNCHANGED <<agentConfig, chats, fx>>

(***************************************************************************)
(* handleChat: the merge of the files a refinement returned.  A Map keeps  *)
(* its keys in insertion order; here it is the sequence of its values.     *)
(***************************************************************************)
\* An insertion that never replaces.
MapAppend(entries, f) == Append(entries, f)

\* Map.prototype.set(f.filename, f): a present key keeps its place and takes
\* the new value, a new key goes last.
MapSet(entries, f) ==
  IF \E i \in 1..Len(entries) : entries[i].filename = f.filename
  THEN [i \in 1..Len(entries) |->
          IF entries[i].filename = f.filename THEN f ELSE entries[i]]
  ELSE Append(entries, f)

\* files.forEach(f => fileMap.set(f.filename, f)), also the Map constructor
\* applied to the [filename, file] pairs.
RECURSIVE SetAll(_, _)
SetAll(entries, files) ==
  IF files = <<>> THEN entries
  ELSE SetAll(MapSet(entries, files[1]), Tail(files))

\* Lines 184-190: updatedCode.
MergeFiles(code, files) ==
  IF Len(files) > 0 THEN SetAll(SetAll(<<>>, code), files) ELSE code

(***************************************************************************)
(* services/gemini.ts: chatWithAgent, and handleChat.  The markers         *)
(* JSON_START and JSON_END are one symbol each.                            *)
(***************************************************************************)
JSON_START == "JSON_START"
JSON_END == "JSON_END"

ChatError ==
  <<"I encountered an error trying to process your request. Please try again.">>

\* Lines 502-515: the files of the JSON block, or the note of the inner catch.
ChatFiles(finalText, r) ==
  IF r.threw
  THEN [text |-> finalText \o <<"\n(Error applying code changes automatically)">>,
        files |-> <<>>]
  ELSE [text |-> finalText, files |-> r.val]

\* Lines 500-515, given the two indexes.
ChatBlock(rawText, jsonStart, jsonEnd) ==
  IF jsonStart # -1 /\ jsonEnd # -1
  THEN ChatFiles(Trim(Substring(rawText, 0, jsonStart)),
                 ToFiles(cleanAndParseJSON(Trim(Substring(rawText, jsonStart + 1, jsonEnd)),
                                           NoDefault)))
  ELSE [text |-> rawText, files |-> <<>>]

\* Lines 492-515: rawText = response.text || "".
ChatParse(rawText) ==
  ChatBlock(rawText, IndexOf(rawText, JSON_START), LastIndexOf(rawText, JSON_END))

\* Agent 10: lines 456-523.  The outer catch answers for a missing key and
\* for a rejected request.
chatWithAgent(history, currentFiles, userMessage, reply) ==
  IF generateContent(reply).threw THEN [text |-> ChatError, files |-> <<>>]
  ELSE ChatParse(reply.text)

\* types.ts lines 59-63: a message of the chat.
ChatMessage(role, text, timestamp) == [role |-> role, text |-> text, timestamp |-> timestamp]

\* The values the clock has returned to the exchanges cs, and the greatest.
Reads(cs) ==
  {0} \union {cs[i].sent : i \in 1..Len(cs)}
      \union {cs[i].replied : i \in {k \in 1..Len(cs) : cs[k].done}}

LastRead(cs) == CHOOSE m \in Reads(cs) : \A t \in Reads(cs) : t <= m

\* Lines 174 and 181, Date.now(): the milliseconds of the wall clock, which
\* two reads in the same millisecond find unchanged.
DateNow(cs) == {t \in {LastRead(cs), LastRead(cs) + 1} : t <= MaxNow}

\* The reads of a clock that has moved on since the read before.
DateNowLater(cs) == {LastRead(cs) + 1}

\* ChatInterface.tsx lines 19-25 and CodeViewer.tsx lines 32 and 149: the
\* form sends a message that is not blank while the status is neither
\* FINALIZING nor POST_PROCESSING; part_002: the viewer is shown for a project
\* with files whose status is not ERROR.
CanSend(project, msg) ==
  /\ ~IsNull(project)
  /\ project.status # "ERROR"
  /\ Len(project.code) > 0
  /\ project.status \notin {"FINALIZING", "POST_PROCESSING"}
  /\ Trim(msg) # <<>>

\* A last update that writes the project of the closure back.
ChatResultStale(prev, snapshot, updatedHistory, updatedCode) ==
  IF IsNull(prev) THEN prev
  ELSE [snapshot EXCEPT !.chatHistory = updatedHistory, !.code = updatedCode]

\* Line 192: prev ? {...prev, chatHistory: updatedHistory, code: updatedCode} : null
ChatResult(prev, snapshot, updatedHistory, updatedCode) ==
  IF IsNull(prev) THEN prev
  ELSE [prev EXCEPT !.chatHistory = updatedHistory, !.code = updatedCode]

\* Lines 186-190: the log line of a refinement that returned files.
ChatLogged(prev, id, files) ==
  IF Len(files) > 0
  THEN addLog(prev, id, <<"Agent 10 (Refiner): Updated ", ToString(Len(files)),
                         " files based on chat.">>)
  ELSE prev

\* Lines 170-180: the form is submitted.  The handler reads the project of
\* its closure, kept in chats with the history it built, until the call
\* settles.
ChatStart(msg, t) ==
  /\ Len(chats) < MaxChats
  /\ CanSend(currentProject, msg)
  /\ \E newHistory \in {Append(currentProject.chatHistory, ChatMessage("user", msg, t))} :
        /\ currentProject' = [currentProject EXCEPT !.chatHistory = newHistory]
        /\ chats' = Append(chats, [ project |-> currentProject, newHistory |-> newHistory,
                                    msg |-> msg, done |-> FALSE, at |-> "NONE",
                                    response |-> [text |-> <<>>, files |-> <<>>],
                                    sent |-> t, replied |-> 0 ])
  /\ UNCHANGED <<agentConfig, run, statusTrace, fx>>

\* Lines 180-192: chatWithAgent settles for the i-th exchange.
ChatSettle(i, reply, t) ==
  /\ i \in 1..Len(chats)
  /\ ~chats[i].done
  /\ \E c \in {chats[i]} :
     \E response \in {chatWithAgent(c.newHistory, c.project.code, c.msg, reply)} :
        /\ currentProject' =
             ChatResult(ChatLogged(currentProject, c.project.id, response.files), c.project,
                        Append(c.newHistory, ChatMessage("model", response.text, t)),
                        MergeFiles(c.project.code, response.files))
        /\ chats' = [chats EXCEPT ![i].done = TRUE, ![i].at = Status,
                                  ![i].response = response, ![i].replied = t]
  /\ UNCHANGED <<agentConfig, run, statusTrace, fx>>

\* Lines 195-197: a click on the logo or on New Project.
handleReset ==
  /\ ~IsNull(currentProject)
  /\ currentProject' = NoProject
  /\ UNCHANGED <<agentConfig, run, chats, statusTrace, fx>>

\* Lines 50-71 and 88, startProject called again after a reset while the
\* run before it is still suspended at an await or has ended: run goes on
\* holding the older run, fx holds the position of the newer one.  The id
\* is Date.now() read later than for the older run.
StartNewer ==
  /\ run.pc # "none"
  /\ fx.op = "none"
  /\ IsNull(currentProject)
  /\ \E id \in {run.id + 1} :
        /\ currentProject' = SetCustomModules(NewProject(id, agentConfig), id, <<>>)
        /\ fx' = [op |-> "newer", id |-> id, pc |-> "base64"]
  /\ UNCHANGED <<agentConfig, run, chats, statusTrace>>

\* Lines 91-95 and 160-167 for the newer run: fileToBase64 settles.
NewerBase64Settle(ok) ==
  /\ fx.op = "newer"
  /\ fx.pc = "base64"
  /\ currentProject' =
       IF ok THEN addLog(currentProject, fx.id,
                         <<"Agent 1 (Architect): Analyzing diagram topology...">>)
       ELSE CatchUpdate(currentProject, fx.id, Throw(<<>>))
  /\ fx' = [fx EXCEPT !.pc = IF ok THEN "s1" ELSE "done"]
  /\ UNCHANGED <<agentConfig, run, chats, statusTrace>>

\* components/AgentSettings.tsx, shown while there is no project: one
\* setting is changed.
ChangeSettings(key, value) ==
  /\ IsNull(currentProject)
  /\ run.pc = "none"
  /\ agentConfig[key] # value
  /\ agentConfig' = [agentConfig EXCEPT ![key] = value]
  /\ UNCHANGED <<currentProject, run, chats, statusTrace, fx>>

(***************************************************************************)
(* The replies and archives a run may meet                                 *)
(***************************************************************************)
Q(sym) == <<DQ, sym, DQ>>

\* {"provider":"aws"}
AnalysisText == <<"{">> \o Q("provider") \o <<":">> \o Q("aws") \o <<"}">>

\* {"a.tf":"x","b.tf":"x"} inside a json fence, and {"a.tf":"x","README.md":"x"}
CodeTextAB ==
  <<FENCE, "json", WS, "{">> \o Q("a.tf") \o <<":">> \o Q("x") \o <<",">>
    \o Q("b.tf") \o <<":">> \o Q("x") \o <<"}", WS, FENCE>>
CodeTextReadme ==
  <<"{">> \o Q("a.tf") \o <<":">> \o Q("x") \o <<",">>
    \o Q("README.md") \o <<":">> \o Q("x") \o <<"}">>

\* {"score":100,"issues":[]}  {"score":2,"issues":[]}  {"score":100,"issues":["w"]}  {}
ReviewPerfect ==
  <<"{">> \o Q("score") \o <<":", "1", "0", "0", ",">> \o Q("issues") \o <<":", "[", "]", "}">>
ReviewLowScore ==
  <<"{">> \o Q("score") \o <<":", "2", ",">> \o Q("issues") \o <<":", "[", "]", "}">>
ReviewIssue ==
  <<"{">> \o Q("score") \o <<":", "1", "0", "0", ",">> \o Q("issues") \o <<":", "[">>
    \o Q("w") \o <<"]", "}">>
ReviewNoFields == <<"{", "}">>

\* {"a.tf":"new","b.tf":"x"}
FixedText ==
  <<"{">> \o Q("a.tf") \o <<":">> \o Q("new") \o <<",">>
    \o Q("b.tf") \o <<":">> \o Q("x") \o <<"}">>

\* {"totalMonthlyCost":"$1","breakdown":[]}
CostText ==
  <<"Here", WS, "{">> \o Q("totalMonthlyCost") \o <<":">> \o Q("$1") \o <<",">>
    \o Q("breakdown") \o <<":", "[", "]", "}">>

\* [{"severity":"HIGH"}]
FindingsText == <<"[", "{">> \o Q("severity") \o <<":">> \o Q("HIGH") \o <<"}", "]">>

DiagramText == <<FENCE, "mermaid", WS, "graph TD", WS, FENCE>>

\* {"deploy.yml":"x"}
DevOpsText == <<"{">> \o Q("deploy.yml") \o <<":">> \o Q("x") \o <<"}">>

Replies(stage) ==
  CASE stage = "analyze" -> Failures \cup {Text(AnalysisText), Text(<<"null">>)}
    [] stage = "generate" ->
         Failures \cup {Text(CodeTextAB), Text(CodeTextReadme), Text(<<"null">>)}
    [] stage = "validate" ->
         Failures \cup {Text(ReviewPerfect), Text(ReviewLowScore), Text(ReviewIssue),
                        Text(ReviewNoFields), Text(<<"null">>)}
    [] stage = "finalize" -> Failures \cup {Text(FixedText)}
    [] stage = "document" -> {NoKey, ServiceError, Text(<<>>), Text(<<"# Readme">>)}
    [] stage = "cost" -> Failures \cup {Text(CostText), Text(<<"null">>)}
    [] stage = "security" -> Failures \cup {Text(FindingsText), Text(<<"null">>)}
    [] stage = "diagram" -> {NoKey, ServiceError, Text(<<>>), Text(DiagramText)}
    [] stage = "devops" -> Failures \cup {Text(DevOpsText)}

Entry(filename, dir, readable) ==
  [filename |-> filename, dir |-> dir, content |-> <<"module">>, readable |-> readable]

\* Not a zip; a main.tf that cannot be read; modules/ main.tf .hidden.tf logo.png
Archives ==
  { [valid |-> FALSE, entries |-> <<>>],
    [valid |-> TRUE, entries |-> << Entry(<<"main", ".tf">>, FALSE, FALSE) >>],
    [valid |-> TRUE,
     entries |-> << Entry(<<"modules/">>, TRUE, TRUE), Entry(<<"main", ".tf">>, FALSE, TRUE),
                    Entry(<<".", "hidden", ".tf">>, FALSE, TRUE),
                    Entry(<<"logo", ".png">>, FALSE, TRUE) >>] }

(***************************************************************************)
(* The pipeline: the settings chosen on the upload page, then one run of   *)
(* startProject on a project that stays the active one.                    *)
(***************************************************************************)
Init ==
  /\ currentProject = NoProject
  /\ agentConfig = [generateCICD |-> FALSE, generateAnsible |-> FALSE]
  /\ run = NoRun
  /\ chats = <<>>
  /\ statusTrace = <<>>
  /\ fx = NoCall

Next ==
  \/ \E key \in {"generateCICD", "generateAnsible"}, value \in BOOLEAN : ChangeSettings(key, value)
  \/ \E hasModuleFile \in BOOLEAN : StartProject(hasModuleFile)
  \/ \E file \in Archives : ModulesSettle(file)
  \/ \E ok \in BOOLEAN : Base64Settle(ok)
  \/ \E reply \in Replies("analyze") : Stage1Settle(reply)
  \/ \E reply \in Replies("generate") : Stage2Settle(reply)
  \/ \E reply \in Replies("validate") : Stage3Settle(reply)
  \/ \E reply \in Replies("finalize") : Stage4Settle(reply)
  \/ \E s \in EnrichStages : \E reply \in Replies(s) : EnrichSettle(s, reply)
  \/ BarrierJoin

Spec == Init /\ [][Next]_vars

(***************************************************************************)
(* The extractor applied to bounded inputs: valid and invalid payloads,    *)
(* bare, fenced, and wrapped in prose.                                     *)
(***************************************************************************)
MaxProse == 1

\* Payloads: {"a":1}  {"x":[1,2]}  [1,{"a":2}]  {"a":"}"}  []  [<a fence in a string>]
\*           1  null  "{}"
ValidData ==
  { <<"{", DQ, "a", DQ, ":", "1", "}">>,
    <<"{", DQ, "x", DQ, ":", "[", "1", ",", "2", "]", "}">>,
    <<"[", "1", ",", "{", DQ, "a", DQ, ":", "2", "}", "]">>,
    <<"{", DQ, "a", DQ, ":", DQ, "}", DQ, "}">>,
    <<"[", "]">>,
    <<"[", DQ, FENCE, DQ, "]">>,
    <<"1">>,
    <<"null">>,
    <<DQ, "{", "}", DQ>> }

\* Not JSON: the empty text, prose, an unclosed object, an unclosed array.
InvalidData ==
  { <<>>, <<"w">>, <<"{", DQ, "a", DQ, ":", "1">>, <<"[", "1", ",">> }

ProseSymbols == {"w", WS, "[", "}", "]", FENCE}

RECURSIVE SeqsUpTo(_, _)
SeqsUpTo(S, n) ==
  IF n = 0 THEN {<<>>}
  ELSE LET shorter == SeqsUpTo(S, n - 1)
       IN shorter \cup {Append(q, c) : q \in shorter, c \in S}

Prose == SeqsUpTo(ProseSymbols, MaxProse)

FenceKinds == {"none", "plain", "json"}

\* The text the service sends: the payload, fenced or not, inside the prose.
Wrapped(prefix, fence, data, suffix) ==
  prefix
  \o (CASE fence = "none" -> data
        [] fence = "plain" -> <<FENCE, WS>> \o data \o <<WS, FENCE>>
        [] fence = "json" -> <<FENCE, "json", WS>> \o data \o <<WS, FENCE>>)
  \o suffix

Defaults == {NoDefault, Default(JArr(<<>>))}

InitJSON ==
  /\ fx \in { [op |-> "input", prefix |-> pre, fence |-> f, data |-> d, suffix |-> suf,
               text |-> Wrapped(pre, f, d, suf), defaultVal |-> dv, out |-> Return(JNull)] :
              pre \in Prose, f \in FenceKinds, d \in ValidData \cup InvalidData,
              suf \in Prose, dv \in Defaults }
  /\ currentProject = NoProject
  /\ agentConfig = [generateCICD |-> FALSE, generateAnsible |-> FALSE]
  /\ run = NoRun
  /\ chats = <<>>
  /\ statusTrace = <<>>

ExtractJSON ==
  /\ fx.op = "input"
  /\ fx' = [fx EXCEPT !.op = "done", !.out = cleanAndParseJSON(fx.text, fx.defaultVal)]
  /\ UNCHANGED <<currentProject, agentConfig, run, chats, statusTrace>>

NextJSON == ExtractJSON

SpecJSON == InitJSON /\ [][NextJSON]_vars

(***************************************************************************)
(* The parallel phase with the order of the settlements kept: a run whose  *)
(* sequential stages succeed, each agent of the phase meeting a result or  *)
(* a service error.                                                        *)
(***************************************************************************)
OrderReplies(s) ==
  CASE s = "document" -> {ServiceError, Text(<<"# Readme">>)}
    [] s = "cost" -> {ServiceError, Text(CostText)}
    [] s = "security" -> {ServiceError, Text(FindingsText)}
    [] s = "diagram" -> {ServiceError, Text(DiagramText)}
    [] s = "devops" -> {ServiceError, Text(DevOpsText)}

InitOrder ==
  /\ currentProject = NoProject
  /\ agentConfig = [generateCICD |-> FALSE, generateAnsible |-> FALSE]
  /\ run = NoRun
  /\ chats = <<>>
  /\ statusTrace = <<>>
  /\ fx = [op |-> "order", order |-> <<>>]

NextOrder ==
  \/ \E value \in BOOLEAN : ChangeSettings("generateCICD", value)
  \/ StartProject(FALSE)
  \/ Base64Settle(TRUE)
  \/ Stage1Settle(Text(AnalysisText))
  \/ Stage2Settle(Text(CodeTextAB))
  \/ \E reply \in {Text(ReviewPerfect), Text(ReviewLowScore)} : Stage3Settle(reply)
  \/ Stage4Settle(Text(FixedText))
  \/ \E s \in EnrichStages : \E reply \in OrderReplies(s) : OrderedSettle(s, reply)
  \/ BarrierJoin

SpecOrder == InitOrder /\ [][NextOrder]_vars

(***************************************************************************)
(* The refinement chat beside a run: the sequential stages succeed or      *)
(* stage 3 or 4 fails, each agent of the parallel phase returns a result,  *)
(* and up to MaxChats messages are sent whenever the form allows it.       *)
(***************************************************************************)
\* An answer; an answer with {"a.tf":"new","c.tf":"x"}; a block that is not
\* JSON; no text.
ChatChange ==
  <<"changed", WS, JSON_START, "{">> \o Q("a.tf") \o <<":">> \o Q("new") \o <<",">>
    \o Q("c.tf") \o <<":">> \o Q("x") \o <<"}", JSON_END>>

ChatReplies ==
  { ServiceError, Text(<<"ok">>), Text(ChatChange),
    Text(<<"sorry", JSON_START, "w", JSON_END>>), Text(<<>>) }

\* The message typed for the i-th exchange.
ChatInput(i) == <<"request", WS, ToString(i)>>

InitChat ==
  /\ currentProject = NoProject
  /\ agentConfig = [generateCICD |-> FALSE, generateAnsible |-> FALSE]
  /\ run = NoRun
  /\ chats = <<>>
  /\ statusTrace = <<>>
  /\ fx = NoCall

NextChat ==
  \/ StartProject(FALSE)
  \/ Base64Settle(TRUE)
  \/ Stage1Settle(Text(AnalysisText))
  \/ Stage2Settle(Text(CodeTextAB))
  \/ \E reply \in {Text(ReviewPerfect), Text(ReviewLowScore), ServiceError} : Stage3Settle(reply)
  \/ \E reply \in {Text(FixedText), ServiceError} : Stage4Settle(reply)
  \/ \E s \in EnrichStages : \E reply \in OrderReplies(s) \ {ServiceError} : EnrichSettle(s, reply)
  \/ BarrierJoin
  \/ \E t \in DateNowLater(chats) : \E msg \in {ChatInput(Len(chats) + 1)} : ChatStart(msg, t)
  \/ \E t \in DateNowLater(chats) : \E i \in 1..MaxChats : \E reply \in ChatReplies :
        ChatSettle(i, reply, t)

SpecChat == InitChat /\ [][NextChat]_vars

(***************************************************************************)
(* One run that the review finds perfect, and refinement exchanges whose    *)
(* reads of the clock may fall in the same millisecond.                     *)
(***************************************************************************)
InitClock == InitChat

NextClock ==
  \/ StartProject(FALSE)
  \/ Base64Settle(TRUE)
  \/ Stage1Settle(Text(AnalysisText))
  \/ Stage2Settle(Text(CodeTextAB))
  \/ Stage3Settle(Text(ReviewPerfect))
  \/ \E s \in EnrichStages : EnrichSettle(s, ServiceError)
  \/ BarrierJoin
  \/ \E t \in DateNow(chats) : \E msg \in {ChatInput(Len(chats) + 1)} : ChatStart(msg, t)
  \/ \E t \in DateNow(chats) : \E i \in 1..MaxChats :
        \E reply \in {ServiceError, Text(ChatChange)} : ChatSettle(i, reply, t)

SpecClock == InitClock /\ [][NextClock]_vars

(***************************************************************************)
(* A run, refinement exchanges, a reset at any moment and a second run     *)
(* started while the first one and its exchanges may still be awaited.     *)
(***************************************************************************)
\* The exchanges started beside a reset and a second run.
MaxResetChats == 1

InitReset == InitChat

NextReset ==
  \/ StartProject(FALSE)
  \/ \E ok \in BOOLEAN : Base64Settle(ok)
  \/ \E reply \in {Text(AnalysisText), ServiceError} : Stage1Settle(reply)
  \/ Stage2Settle(Text(CodeTextAB))
  \/ \E reply \in {Text(ReviewPerfect), Text(ReviewLowScore)} : Stage3Settle(reply)
  \/ Stage4Settle(Text(FixedText))
  \/ \E s \in EnrichStages : EnrichSettle(s, ServiceError)
  \/ BarrierJoin
  \/ /\ Len(chats) < MaxResetChats
     /\ \E t \in DateNowLater(chats) : \E msg \in {ChatInput(Len(chats) + 1)} : ChatStart(msg, t)
  \/ \E t \in DateNowLater(chats) : \E i \in 1..MaxChats :
        \E reply \in {Text(<<"ok">>), Text(ChatChange)} : ChatSettle(i, reply, t)
  \/ handleReset
  \/ StartNewer
  \/ \E ok \in BOOLEAN : NewerBase64Settle(ok)

SpecReset == InitReset /\ [][NextReset]_vars

(***************************************************************************)
(* The loader applied to bounded archives: what JSZip lists for the file   *)
(* (entries under distinct names, in order), or a file that is not a zip.  *)
(***************************************************************************)
MaxEntries == 3

\* modules/  .hidden.tf  __MACOSX/a.tf  main.tf  docs/notes.md  vars.json
\* ci.yaml  notes.txt  logo.png  tf  MAIN.TF, and a .tf and a .png that
\* cannot be read.
ZipEntries ==
  { Entry(<<"modules/">>, TRUE, TRUE), Entry(<<".", "hidden", ".tf">>, FALSE, TRUE),
    Entry(<<"__MACOSX", "/a", ".tf">>, FALSE, TRUE), Entry(<<"main", ".tf">>, FALSE, TRUE),
    Entry(<<"docs/", "notes", ".md">>, FALSE, TRUE), Entry(<<"vars", ".json">>, FALSE, TRUE),
    Entry(<<"ci", ".yaml">>, FALSE, TRUE), Entry(<<"notes", ".txt">>, FALSE, TRUE),
    Entry(<<"logo", ".png">>, FALSE, TRUE), Entry(<<"tf">>, FALSE, TRUE),
    Entry(<<"MAIN", ".TF">>, FALSE, TRUE), Entry(<<"bad", ".tf">>, FALSE, FALSE),
    Entry(<<"bad", ".png">>, FALSE, FALSE) }

ZipFiles ==
  { [valid |-> FALSE, entries |-> <<>>] }
    \cup { [valid |-> TRUE, entries |-> q] :
             q \in { q \in SeqsUpTo(ZipEntries, MaxEntries) :
                       \A i, j \in 1..Len(q) : q[i] = q[j] => i = j } }

InitZip ==
  /\ fx \in { [op |-> "input", file |-> f, out |-> Return(<<>>)] : f \in ZipFiles }
  /\ currentProject = NoProject
  /\ agentConfig = [generateCICD |-> FALSE, generateAnsible |-> FALSE]
  /\ run = NoRun
  /\ chats = <<>>
  /\ statusTrace = <<>>

LoadZip ==
  /\ fx.op = "input"
  /\ fx' = [fx EXCEPT !.op = "loaded", !.out = extractTextFilesFromZip(fx.file)]
  /\ UNCHANGED <<currentProject, agentConfig, run, chats, statusTrace>>

NextZip == LoadZip

SpecZip == InitZip /\ [][NextZip]_vars

(***************************************************************************)
(* Properties of the pipeline (Spec)                                       *)
(***************************************************************************)
StageCalls == <<"analyze", "generate", "validate", "finalize">>

FailurePrefix ==
  << "Agent 1 (Architect) failed: ", "Agent 2 (Generator) failed: ",
     "Agent 3 (Validator) failed: ", "Agent 4 (Finalizer) failed: " >>

\* C1: when sequential stage k fails the run is over with no stage after k
\* invoked, the status is ERROR and the error field is the message of the
\* error the stage raised.
C1_FailFast ==
  \A k \in 1..4 :
    run.failed = StageCalls[k] =>
      /\ run.pc = "done"
      /\ run.calls = SubSeq(StageCalls, 1, k)
      /\ currentProject.status = "ERROR"
      /\ run.thrown.threw
      /\ run.thrown.msg # <<>>
      /\ run.thrown.msg[1] = FailurePrefix[k]
      /\ currentProject.error = run.thrown.msg

\* Stage 3 has failed after stages 1 and 2 completed.
C1_Witness ==
  /\ run.failed = "validate"
  /\ run.calls = <<"analyze", "generate", "validate">>
  /\ currentProject.status = "ERROR"
  /\ currentProject.error =
       <<"Agent 3 (Validator) failed: ", "Received empty response from Agent 3 (Validation).">>

InTrace(status) == \E i \in 1..Len(statusTrace) : statusTrace[i] = status

\* C2 as stated, for the runs whose four sequential stages all completed (the
\* status reached POST_PROCESSING): once the run is over the status has taken
\* exactly the six values of the success path, in order.
C2_SuccessPath ==
  (run.pc = "done" /\ InTrace("POST_PROCESSING")) => statusTrace = StatusOrder

\* C3 as stated: ERROR is only entered from ANALYZING, GENERATING, REVIEWING
\* or FINALIZING.
C3_ErrorOnlyFromSequential ==
  \A i \in 1..Len(statusTrace) :
    statusTrace[i] = "ERROR" =>
      i > 1 /\ \E k \in 1..Len(Sequential) : statusTrace[i - 1] = Sequential[k]

AllSettled == \A s \in EnrichStages : run.settled[s].done

\* Each stage failed in one of the listed ways or returned a value of its shape.
FailedOrWellFormed ==
  \A s \in {"cost", "security"} :
    run.settled[s].failure \/ ~IsNullish(run.settled[s].out.val)

\* C4: in the parallel phase every agent gives a value whichever failure its
\* call meets (no key, a rejected request, no text, a text that is not JSON),
\* and when all five have settled, each with such a failure or with a value of
\* its shape, the join can be taken and the run ends with status COMPLETED.
C4_JoinNeverRaises ==
  /\ run.pc = "barrier" =>
       \A s \in EnrichStages : \A reply \in Failures : ~EnrichAgent(s, run, reply).threw
  /\ \A s \in EnrichStages :
       (run.settled[s].done /\ run.settled[s].failure) => ~run.settled[s].out.threw
  /\ (run.pc = "barrier" /\ AllSettled) => ENABLED BarrierJoin
  /\ (run.pc = "done" /\ AllSettled /\ FailedOrWellFormed) =>
       /\ currentProject.status = "COMPLETED"
       /\ run.failed = "none"
       /\ currentProject.error = <<>>

\* All five agents failed and the run completed.
C4_Witness ==
  /\ run.pc = "done"
  /\ \A s \in EnrichStages : run.settled[s].done /\ run.settled[s].failure
  /\ currentProject.status = "COMPLETED"

\* What the replies of the successful calls hold.
RealCost ==
  JObj(<< <<"totalMonthlyCost">>, <<"breakdown">> >>, << JStr(<<"$1">>), JArr(<<>>) >>)
RealFindings == JArr(<< JObj(<< <<"severity">> >>, << JStr(<<"HIGH">>) >>) >>)
RealDiagram == JStr(<<"graph TD">>)
RealDevOps == << TerraformFile(<<"deploy.yml">>, <<"x">>) >>
RealReadme == TerraformFile(README, <<"# Readme">>)
Placeholders ==
  { TerraformFile(README, <<"# Documentation Error\nCould not generate documentation.">>),
    TerraformFile(README, <<"# Project Documentation\n\nGeneration failed.">>) }

Failed(s) == run.settled[s].failure

\* C5: in the merged project each failed stage shows its default (cost N/A
\* with an empty breakdown, no findings, the empty diagram, no DevOps files, a
\* placeholder README.md) and each other stage the result of its call.
C5_Defaults ==
  Status = "COMPLETED" =>
    /\ currentProject.cost = IF Failed("cost") THEN CostDefault ELSE RealCost
    /\ Failed("cost") =>
         /\ Prop(currentProject.cost, <<"totalMonthlyCost">>) = JStr(<<"N/A">>)
         /\ Prop(currentProject.cost, <<"breakdown">>) = JArr(<<>>)
    /\ currentProject.security = IF Failed("security") THEN JArr(<<>>) ELSE RealFindings
    /\ currentProject.mermaidDiagram = IF Failed("diagram") THEN JStr(<<>>) ELSE RealDiagram
    /\ \E doc \in (IF Failed("document") THEN Placeholders ELSE {RealReadme}) :
         currentProject.code =
           run.finalCode
           \o (IF Failed("devops") \/ DevOpsSkipped(run.config) THEN <<>> ELSE RealDevOps)
           \o <<doc>>

\* Cost and Security failed, the other three succeeded, and the run completed.
C5_Witness ==
  /\ Status = "COMPLETED"
  /\ Failed("cost") /\ Failed("security")
  /\ ~Failed("document") /\ ~Failed("diagram") /\ ~Failed("devops")
  /\ ~DevOpsSkipped(run.config)
  /\ Prop(currentProject.cost, <<"totalMonthlyCost">>) = JStr(<<"N/A">>)
  /\ currentProject.security = JArr(<<>>)
  /\ currentProject.mermaidDiagram = RealDiagram
  /\ currentProject.code[Len(currentProject.code)] = RealReadme
  /\ currentProject.code[Len(currentProject.code) - 1] = RealDevOps[1]

\* C7 as stated: no two entries of the project's file collection have the
\* same filename.
C7_UniqueFilenames ==
  ~IsNull(currentProject) =>
    \A i, j \in 1..Len(currentProject.code) :
      currentProject.code[i].filename = currentProject.code[j].filename => i = j

\* The log lines that record the completion of the sequential stages.
CompletionMark ==
  << "Agent 1: Detected ", "Agent 2: Code generated.", "Agent 3: Review Score: ",
     "Agent 4: Applied fixes." >>

\* C10 as stated: while the status is POST_PROCESSING the log holds a
\* completion line of each of the four sequential stages.
C10_CompletionLogged ==
  Status = "POST_PROCESSING" =>
    \A k \in 1..4 :
      \E i \in 1..Len(currentProject.logs) : currentProject.logs[i][1] = CompletionMark[k]

\* The fields the catch does not name.
KeptFields ==
  { "id", "analysis", "code", "customModules", "validation", "cost", "security",
    "mermaidDiagram", "chatHistory", "config" }

\* C11: in a project with status ERROR the outputs of the stages that
\* completed are in place (analysis, files, review, module context) and the
\* others are as the project was created (cost null, no findings, no
\* diagram); after a failure of stage 1 there are no files, no analysis and no
\* review.  The catch's update leaves every field but status, error and the
\* log as it is.
C11_ErrorKeepsOutputs ==
  /\ ~IsNull(currentProject) =>
       \A f \in KeptFields :
         CatchUpdate(currentProject, currentProject.id, Throw(<<"e">>))[f] = currentProject[f]
  /\ Status = "ERROR" =>
       /\ currentProject.analysis = run.analysis
       /\ currentProject.validation = run.validation
       /\ currentProject.customModules = run.modules
       /\ currentProject.code =
            IF InTrace("POST_PROCESSING") THEN run.finalCode ELSE run.generatedCode
       /\ currentProject.cost = JNull
       /\ currentProject.security = JArr(<<>>)
       /\ currentProject.mermaidDiagram = JNull
       /\ run.failed = "analyze" =>
            /\ currentProject.code = <<>>
            /\ currentProject.analysis = JNull
            /\ currentProject.validation = JNull

\* Stage 3 has failed: the analysis and the files of stages 1 and 2 are kept.
C11_Witness ==
  /\ Status = "ERROR"
  /\ run.failed = "validate"
  /\ currentProject.analysis = JObj(<< <<"provider">> >>, << JStr(<<"aws">>) >>)
  /\ Len(currentProject.code) = 2
  /\ currentProject.validation = JNull
  /\ currentProject.cost = JNull

Called(stage) == \E i \in 1..Len(run.calls) : run.calls[i] = stage

ScoreBelow100(v) ==
  Prop(v, <<"score">>).t = "num" /\ NumVal(Prop(v, <<"score">>).s) < 100

HasIssues(v) ==
  Prop(v, <<"issues">>).t = "arr" /\ Len(Prop(v, <<"issues">>).kids) > 0

PerfectReview(v) ==
  Prop(v, <<"score">>) = JNum(<<"1", "0", "0">>) /\ Prop(v, <<"issues">>) = JArr(<<>>)

\* C13: once the review is in, the finalizer has been called if and only if
\* the score is below 100 or there is an issue; after a perfect review no
\* call is made, the status has gone through FINALIZING to POST_PROCESSING
\* and the finalized code is the code of stage 2.
C13_FinalizerIffNotPerfect ==
  InTrace("FINALIZING") =>
    /\ Called("finalize") <=> (ScoreBelow100(run.validation) \/ HasIssues(run.validation))
    /\ PerfectReview(run.validation) =>
         /\ ~Called("finalize")
         /\ Len(statusTrace) >= 5
         /\ SubSeq(statusTrace, 1, 5) = SubSeq(StatusOrder, 1, 5)
         /\ run.finalCode = run.generatedCode
         /\ Status = "POST_PROCESSING" => currentProject.code = run.generatedCode

\* A perfect review has been followed by the parallel phase without a call.
C13_Witness ==
  /\ PerfectReview(run.validation)
  /\ Status = "POST_PROCESSING"
  /\ run.calls = <<"analyze", "generate", "validate", "document", "cost", "security",
                   "diagram", "devops">>
  /\ currentProject.code = run.generatedCode
  /\ Len(run.generatedCode) = 2

LogIndex(line) ==
  { i \in 1..Len(currentProject.logs) : currentProject.logs[i] = line }

\* C14 as stated: when the finalizer's call was skipped the log holds a line
\* between the one that announces the finalizer and the one that announces
\* the parallel phase.
C14_NoFixLogged ==
  (~IsNull(currentProject) /\ run.skippedFinalizer) =>
    \E i \in LogIndex(<<"Agent 4 (Finalizer): Polishing and formatting...">>) :
      \E k \in LogIndex(<<"Starting Parallel Agents: Documentation, FinOps, Security, Visualization...">>) :
        k > i + 1

\* C16: while the status is POST_PROCESSING, and in any state before
\* COMPLETED, the project shows none of the five results (cost null, no
\* findings, no diagram, the files are those of the sequential stages); with
\* COMPLETED it shows all five.
C16_AtomicMerge ==
  /\ Status = "POST_PROCESSING" => currentProject.code = run.finalCode
  /\ (~IsNull(currentProject) /\ Status # "COMPLETED") =>
       /\ currentProject.cost = JNull
       /\ currentProject.security = JArr(<<>>)
       /\ currentProject.mermaidDiagram = JNull
       /\ \/ currentProject.code = run.generatedCode
          \/ currentProject.code = run.finalCode
  /\ Status = "COMPLETED" =>
       /\ currentProject.cost = run.settled["cost"].out.val
       /\ currentProject.security = run.settled["security"].out.val
       /\ currentProject.mermaidDiagram = run.settled["diagram"].out.val
       /\ currentProject.code =
            run.finalCode \o run.settled["devops"].out.val
              \o <<run.settled["document"].out.val>>

\* Cost, Security and Diagram have settled with results, Document has not,
\* and the project shows none of them.
C16_Witness ==
  /\ Status = "POST_PROCESSING"
  /\ run.settled["cost"].done /\ run.settled["cost"].out.val = RealCost
  /\ run.settled["security"].done /\ run.settled["security"].out.val = RealFindings
  /\ run.settled["diagram"].done /\ run.settled["diagram"].out.val = RealDiagram
  /\ ~run.settled["document"].done
  /\ currentProject.cost = JNull
  /\ currentProject.mermaidDiagram = JNull

\* C17: when the run's settings ask for neither CI/CD nor Ansible, the DevOps
\* agent has returned no files without waiting for a reply, whatever reply a
\* call would have met, and the merged files are the finalized code followed
\* by the documentation file.
C17_DevOpsSkipped ==
  ( /\ InTrace("POST_PROCESSING")
    /\ ~run.config.generateCICD /\ ~run.config.generateAnsible ) =>
    /\ run.settled["devops"] = Settled(Return(<<>>), FALSE)
    /\ \A reply \in Replies("devops") :
         generateDevOpsFiles(run.finalCode, run.config, reply) = Return(<<>>)
    /\ Status = "COMPLETED" =>
         currentProject.code = run.finalCode \o <<run.settled["document"].out.val>>

\* A run without DevOps output has completed with the code and the README.
C17_Witness ==
  /\ Status = "COMPLETED"
  /\ ~run.config.generateCICD /\ ~run.config.generateAnsible
  /\ currentProject.code = run.finalCode \o <<RealReadme>>
  /\ Len(run.finalCode) = 2

\* An archive that is not a zip file, or whose main.tf cannot be read.
Broken(file) ==
  \/ ~file.valid
  \/ \E i \in 1..Len(file.entries) :
       file.entries[i].filename = <<"main", ".tf">> /\ ~file.entries[i].readable

\* C20: when the archive passed to the run cannot be loaded, the run goes on
\* to the image conversion and stage 1: the log holds the warning, the
\* module context of the run (handed to stage 2) and the project's
\* customModules are empty, and if the status is ERROR a later step failed.
C20_LoaderNeverFatal ==
  (run.moduleFile # <<>> /\ Broken(run.moduleFile[1])) =>
    /\ run.pc # "modules"
    /\ Len(currentProject.logs) >= 3
    /\ currentProject.logs[3] =
         <<"System Error: Failed to load modules - ",
           "Failed to extract custom modules. Please ensure it is a valid ZIP file.">>
    /\ run.modules = <<>>
    /\ currentProject.customModules = <<>>
    /\ \/ run.pc = "base64" /\ Status = "ANALYZING"
       \/ Called("analyze")
       \/ Status = "ERROR" /\ run.calls = <<>> /\ run.thrown = Throw(<<>>)
    /\ Status = "ERROR" =>
         /\ currentProject.error #
              <<"Failed to extract custom modules. Please ensure it is a valid ZIP file.">>
         /\ run.failed \in {"analyze", "generate", "validate", "finalize"}
              \/ run.thrown # extractTextFilesFromZip(run.moduleFile[1])

\* The archive was not a zip file and the run has completed all the same.
C20_Witness ==
  /\ run.moduleFile = << [valid |-> FALSE, entries |-> <<>>] >>
  /\ Status = "COMPLETED"
  /\ currentProject.customModules = <<>>
  /\ Len(currentProject.code) > 0

\* The error of stage k when the service returns no text.
EmptyResponse ==
  << <<FailurePrefix[1], "Received empty response from Agent 1 (Analysis).">>,
     <<FailurePrefix[2], "Received empty response from Agent 2 (Generation).">>,
     <<FailurePrefix[3], "Received empty response from Agent 3 (Validation).">>,
     <<FailurePrefix[4], "Received empty response from Agent 4 (Finalizer).">> >>

\* Stage k of the run applied to a reply.
SequentialAgent(k, reply) ==
  CASE k = 1 -> analyzeArchitectureImage(reply)
    [] k = 2 -> generateTerraformCode(run.analysis, run.config, run.modules, reply)
    [] k = 3 -> validateTerraformCode(run.generatedCode, reply)
    [] k = 4 -> finalizeTerraformCode(run.generatedCode, run.validation, run.config, reply)

\* C21: each of stages 1-4, given a response without text, raises an error
\* whose message names the stage, and a run in which a stage raised it is
\* over with status ERROR and that message in the error field.
C21_EmptyResponseFatal ==
  \A k \in 1..4 :
    /\ SequentialAgent(k, Text(<<>>)) = Throw(EmptyResponse[k])
    /\ (run.failed = StageCalls[k] /\ run.thrown = Throw(EmptyResponse[k])) =>
         /\ run.pc = "done"
         /\ Status = "ERROR"
         /\ currentProject.error = EmptyResponse[k]
         /\ run.calls = SubSeq(StageCalls, 1, k)

\* The finalizer received no text.
C21_Witness ==
  /\ Status = "ERROR"
  /\ run.failed = "finalize"
  /\ run.thrown = SequentialAgent(4, Text(<<>>))
  /\ currentProject.error =
       <<"Agent 4 (Finalizer) failed: ", "Received empty response from Agent 4 (Finalizer).">>

\* A review with its score and its issues; an analysis with its provider.
ReviewShaped(v) ==
  Prop(v, <<"score">>).t = "num" /\ Prop(v, <<"issues">>).t = "arr"

AnalysisShaped(v) == Prop(v, <<"provider">>).t = "str"

\* C22 as stated: a review without score or issues, or an analysis without
\* provider, is neither stored in the project nor handed to the next stage,
\* and the run that met one has failed with an error that names the stage.
C22_ShapeChecked ==
  ~IsNull(currentProject) =>
    /\ currentProject.analysis # JNull => AnalysisShaped(currentProject.analysis)
    /\ currentProject.validation # JNull => ReviewShaped(currentProject.validation)
    /\ Called("generate") => AnalysisShaped(run.analysis)
    /\ Called("finalize") => ReviewShaped(run.validation)
    /\ Status = "ERROR" /\ run.calls # <<>> =>
         /\ run.failed \in {"analyze", "generate", "validate", "finalize"}
         /\ currentProject.error[1] \in {FailurePrefix[k] : k \in 1..4}

\* The log lines that mark a fatal failure.
CriticalLines ==
  { i \in 1..Len(currentProject.logs) : currentProject.logs[i][1] = "CRITICAL FAILURE: " }

\* C27: the log of a project holds a line that begins with CRITICAL FAILURE
\* exactly when its status is ERROR; there is one such line, it is the last
\* line of the log, and it ends with the message of the error that was
\* raised, which for a failed stage is the error field.
C27_OneCriticalLine ==
  ~IsNull(currentProject) =>
    /\ Status # "ERROR" => CriticalLines = {}
    /\ Status = "ERROR" =>
         /\ CriticalLines = {Len(currentProject.logs)}
         /\ currentProject.logs[Len(currentProject.logs)] =
              <<"CRITICAL FAILURE: ">>
                \o (IF run.thrown.msg # <<>> THEN run.thrown.msg ELSE <<"undefined">>)
         /\ run.failed \in {"analyze", "generate", "validate", "finalize"} =>
              currentProject.logs[Len(currentProject.logs)] =
                <<"CRITICAL FAILURE: ">> \o currentProject.error

\* Stage 2 has failed for lack of an API key.
C27_Witness ==
  /\ Status = "ERROR"
  /\ run.failed = "generate"
  /\ currentProject.logs[Len(currentProject.logs)] =
       <<"CRITICAL FAILURE: ", "Agent 2 (Generator) failed: ",
         "Critical Error: API_KEY is missing. Please check your environment configuration.">>

\* What the loader gave the run: the wanted files of the archive, or nothing.
LoadedModules ==
  IF run.moduleFile # <<>> /\ ~Broken(run.moduleFile[1])
  THEN extractTextFilesFromZip(run.moduleFile[1]).val
  ELSE <<>>

\* The files every agent of the parallel phase is to work on.
FinalizedFiles == IF Called("finalize") THEN run.finalCode ELSE run.generatedCode

\* C29: every call was made with the outputs of the stages before it: stage
\* 2 with the analysis of stage 1, the run's settings and the modules the
\* loader gave; stage 3 with the files of stage 2; stage 4 with those files,
\* the review of stage 3 and the settings; each of the five agents of the
\* parallel phase with the finalized files (the finalizer's when it was
\* called, else those of stage 2), whatever the other four have returned.
C29_DataFlow ==
  \A i \in 1..Len(run.calls) :
    CASE run.calls[i] = "analyze" -> run.inputs[i] = [image |-> "base64"]
      [] run.calls[i] = "generate" ->
           /\ run.inputs[i] = [ analysis |-> run.analysis, config |-> run.config,
                                 modules |-> LoadedModules ]
           /\ run.analysis = currentProject.analysis
      [] run.calls[i] = "validate" -> run.inputs[i] = [files |-> run.generatedCode]
      [] run.calls[i] = "finalize" ->
           run.inputs[i] = [ files |-> run.generatedCode, validation |-> run.validation,
                             config |-> run.config ]
      [] run.calls[i] = "document" ->
           run.inputs[i] = [files |-> FinalizedFiles, analysis |-> run.analysis]
      [] run.calls[i] \in {"cost", "security", "diagram"} ->
           run.inputs[i] = [files |-> FinalizedFiles]
      [] run.calls[i] = "devops" ->
           run.inputs[i] = [files |-> FinalizedFiles, config |-> run.config]

\* The finalizer changed a.tf, three agents of the parallel phase have
\* returned, and all five were called with the finalizer's files.
C29_Witness ==
  /\ run.pc = "barrier"
  /\ Called("finalize")
  /\ run.finalCode # run.generatedCode
  /\ run.settled["cost"].done /\ run.settled["devops"].done /\ run.settled["document"].done
  /\ ~run.settled["security"].done
  /\ run.config.generateCICD
  /\ \A s \in EnrichStages : Passed(run, s).files = run.finalCode

(***************************************************************************)
(* Properties of the parallel phase (SpecOrder)                            *)
(***************************************************************************)
\* The stages of the parallel phase in the order in which they settled.
Arrival == [i \in 1..Len(fx.order) |-> fx.order[i].stage]

\* What the agent s makes of the reply it met (no files for an agent that
\* met none).
ResultOf(s) ==
  IF \E i \in 1..Len(fx.order) : fx.order[i].stage = s
  THEN EnrichAgent(s, run, (CHOOSE e \in {fx.order[i] : i \in 1..Len(fx.order)} :
                               e.stage = s).reply).val
  ELSE <<>>

\* C15: in a completed project the files are the finalized code, then the
\* DevOps files, then the documentation file, and cost, security and diagram
\* are the results of their agents, whatever the order in which the five
\* agents settled.
C15_FixedMergeOrder ==
  Status = "COMPLETED" =>
    /\ currentProject.code =
         run.finalCode \o ResultOf("devops") \o <<ResultOf("document")>>
    /\ currentProject.cost = ResultOf("cost")
    /\ currentProject.security = ResultOf("security")
    /\ currentProject.mermaidDiagram = ResultOf("diagram")

\* Document settled first and DevOps last, and the DevOps file stands before
\* the documentation file.
C15_Witness ==
  /\ Status = "COMPLETED"
  /\ Arrival = <<"document", "diagram", "security", "cost", "devops">>
  /\ currentProject.code = run.finalCode \o RealDevOps \o <<RealReadme>>
  /\ RealDevOps # <<>>
  /\ currentProject.cost = RealCost

(***************************************************************************)
(* Properties of the refinement chat (SpecChat)                            *)
(***************************************************************************)
\* The step is taken on one and the same project.
SameProject ==
  /\ ~IsNull(currentProject)
  /\ ~IsNull(currentProject')
  /\ currentProject'.id = currentProject.id

\* C12: a step taken on a project whose status is ERROR or COMPLETED, by the
\* run or by a refinement exchange, leaves the status as it is.
C12_Terminal ==
  [][(SameProject /\ currentProject.status \in {"ERROR", "COMPLETED"})
       => currentProject'.status = currentProject.status]_vars

\* Two exchanges that were started during the review have settled after the
\* run failed, one of them with files.
C12_Witness ==
  /\ Status = "ERROR"
  /\ Len(chats) = 2
  /\ chats[1].done /\ chats[1].at = "ERROR" /\ chats[1].project.status = "REVIEWING"
  /\ chats[2].done /\ chats[2].at = "ERROR" /\ Len(chats[2].response.files) > 0

\* The exchange i is started, or settles, in the step.
Starts(i) == Len(chats) = i - 1 /\ Len(chats') = i
Settles(i) == i <= Len(chats) /\ ~chats[i].done /\ Len(chats') >= i /\ chats'[i].done

\* C18 as stated: the step that starts an exchange appends the user's
\* message to the history, and the step in which its call settles appends
\* the model's explanation, with or without files.
C18_TwoMessages ==
  [][\A i \in 1..MaxChats :
       /\ Starts(i) =>
            currentProject'.chatHistory =
              Append(currentProject.chatHistory,
                     ChatMessage("user", chats'[i].msg, chats'[i].sent))
       /\ (Settles(i) /\ SameProject) =>
            currentProject'.chatHistory =
              Append(currentProject.chatHistory,
                     ChatMessage("model", chats'[i].response.text, chats'[i].replied))]_vars

IsPrefix(h, g) == Len(h) <= Len(g) /\ SubSeq(g, 1, Len(h)) = h

\* C19 as stated: every step on a project leaves the messages of its chat
\* history where they are.
C19_AppendOnly ==
  [][SameProject => IsPrefix(currentProject.chatHistory, currentProject'.chatHistory)]_vars

\* C28: every step taken on a project - an update of a stage, a log line,
\* the merge after the parallel phase, the catch, the two writes of a
\* refinement exchange - leaves the lines of its log in place and adds
\* lines, if any, at the end.
C28_LogAppendOnly ==
  [][SameProject => IsPrefix(currentProject.logs, currentProject'.logs)]_vars

\* A refinement that was started during the review has written its log line
\* after the run completed.
C28_Witness ==
  /\ Status = "COMPLETED"
  /\ \E i \in 1..Len(chats) :
       /\ chats[i].done /\ chats[i].at = "COMPLETED"
       /\ chats[i].project.status = "REVIEWING"
       /\ Len(chats[i].response.files) > 0
  /\ currentProject.logs[Len(currentProject.logs)] =
       <<"Agent 10 (Refiner): Updated ", "2", " files based on chat.">>
  /\ currentProject.logs[Len(currentProject.logs) - 1] = <<"Pipeline Successfully Completed.">>

\* No call of the refine stage is awaited.
NonePending == \A i \in 1..Len(chats) : chats[i].done

\* The files the merge after the parallel phase added to the finalized ones.
MergeAdded == run.settled["devops"].out.val \o <<run.settled["document"].out.val>>

\* C31 as stated: when the run has completed and no refinement is awaited,
\* the files of the project include the README.md and every DevOps file
\* that the merge after the parallel phase wrote.
C31_MergeKept ==
  (Status = "COMPLETED" /\ run.pc = "done" /\ NonePending) =>
    \A k \in 1..Len(MergeAdded) :
      \E j \in 1..Len(currentProject.code) :
        currentProject.code[j].filename = MergeAdded[k].filename

\* C32 as stated: the files that refinements returned while the status was
\* REVIEWING are files of the project when the run has completed (every
\* exchange has settled during the review, so no later refinement replaced
\* them).
C32_RefinementKept ==
  (Status = "COMPLETED" /\ run.pc = "done"
     /\ \A i \in 1..Len(chats) : chats[i].done /\ chats[i].at = "REVIEWING") =>
    \A i \in 1..Len(chats) :
      \A k \in 1..Len(chats[i].response.files) :
        \E j \in 1..Len(currentProject.code) :
          currentProject.code[j] = chats[i].response.files[k]

\* C33 as stated: while the status is FINALIZING or POST_PROCESSING no call
\* of the refine stage is awaited.
C33_ChatLocked == Status \in {"FINALIZING", "POST_PROCESSING"} => NonePending

\* C36 as stated: when the call of an exchange settles without files - the
\* service failed, the answer has no block between the markers, or the block
\* could not be parsed - the step leaves the files and the log of the
\* project as they are and adds one message, the model's text, to the end
\* of the history.
C36_NoFilesFrame ==
  [][\A i \in 1..MaxChats :
       (Settles(i) /\ SameProject /\ chats'[i].response.files = <<>>) =>
         /\ currentProject'.code = currentProject.code
         /\ currentProject'.logs = currentProject.logs
         /\ currentProject'.chatHistory =
              Append(currentProject.chatHistory,
                     ChatMessage("model", chats'[i].response.text, chats'[i].replied))]_vars

(***************************************************************************)
(* Properties of a reset and a second run (SpecReset)                       *)
(***************************************************************************)
\* C34 as stated: when the call of an exchange settles while the active
\* project is not the one the message was sent for, the files and the chat
\* history of the active project stay as they are.
C34_OwnProjectOnly ==
  [][\A i \in 1..MaxChats :
       (Settles(i) /\ ~IsNull(currentProject) /\ currentProject.id # chats[i].project.id) =>
         /\ currentProject'.code = currentProject.code
         /\ currentProject'.chatHistory = currentProject.chatHistory]_vars

\* The run takes a step after its first await.
RunStep == run.pc # "none" /\ run' # run

\* C35: a step of a run whose project is not the active one - there is no
\* project after a reset, or a newer run's project with another id - leaves
\* the active project, and the absence of one, as it is, whatever the step
\* writes: status, analysis, files, log lines or the error of the catch.
C35_OwnRunOnly ==
  [][(RunStep /\ currentProject.id # run.id) => currentProject' = currentProject]_vars

\* The older run went through all its stages and the merge after its project
\* was replaced during the analysis; the newer project is as it was created.
C35_Witness ==
  /\ run.pc = "done" /\ run.failed = "none" /\ Called("finalize") /\ Called("devops")
  /\ statusTrace = <<"ANALYZING">>
  /\ fx.op = "newer" /\ fx.pc = "base64"
  /\ currentProject = SetCustomModules(NewProject(run.id + 1, agentConfig), run.id + 1, <<>>)

(***************************************************************************)
(* Properties of the timestamps (SpecClock)                                 *)
(***************************************************************************)
\* C30 as stated: of any two messages of the history, the later one has the
\* greater timestamp, the user's message and the model's reply of one
\* exchange included.
C30_TimestampsIncrease ==
  ~IsNull(currentProject) =>
    \A i, j \in 1..Len(currentProject.chatHistory) :
      i < j => currentProject.chatHistory[i].timestamp < currentProject.chatHistory[j].timestamp

(***************************************************************************)
(* The merge applied to bounded inputs: a current collection, with or      *)
(* without repeated filenames, and the non-empty set of files a refinement *)
(* returned (the entries of a parsed object: its filenames are unique).    *)
(***************************************************************************)
MaxFiles == 2

FileNames == { <<"a.tf">>, <<"b.tf">>, <<"c.tf">> }
Contents == { <<"x">>, <<"new">> }
Files == { TerraformFile(n, c) : n \in FileNames, c \in Contents }

UniqueNames(files) ==
  \A i, j \in 1..Len(files) : files[i].filename = files[j].filename => i = j

Collections == SeqsUpTo(Files, MaxFiles)
Updates == { u \in Collections : u # <<>> /\ UniqueNames(u) }

InitMerge ==
  /\ fx \in { [op |-> "input", C |-> c, U |-> u, out |-> <<>>] : c \in Collections, u \in Updates }
  /\ currentProject = NoProject
  /\ agentConfig = [generateCICD |-> FALSE, generateAnsible |-> FALSE]
  /\ run = NoRun
  /\ chats = <<>>
  /\ statusTrace = <<>>

Merge ==
  /\ fx.op = "input"
  /\ fx' = [fx EXCEPT !.op = "merged", !.out = MergeFiles(fx.C, fx.U)]
  /\ UNCHANGED <<currentProject, agentConfig, run, chats, statusTrace>>

NextMerge == Merge

SpecMerge == InitMerge /\ [][NextMerge]_vars

(***************************************************************************)
(* Properties of the merge (SpecMerge)                                     *)
(***************************************************************************)
NamesOf(files) == { files[i].filename : i \in 1..Len(files) }

\* The content the files give for a filename they hold.
ContentIn(files, n) == files[CHOOSE i \in 1..Len(files) : files[i].filename = n].content

IsNewName(f) == f.filename \notin NamesOf(fx.C)

\* C6: for a collection C of unique filenames and a non-empty update U, the
\* merged collection holds every filename of C and U once; the first Len(C)
\* places keep C's filenames in C's order, each with U's content when U names
\* it and its own otherwise; the rest is U's files of new names, in U's order.
C6_Merger ==
  (fx.op = "merged" /\ UniqueNames(fx.C)) =>
    /\ UniqueNames(fx.out)
    /\ NamesOf(fx.out) = NamesOf(fx.C) \cup NamesOf(fx.U)
    /\ Len(fx.out) >= Len(fx.C)
    /\ \A i \in 1..Len(fx.C) :
         /\ fx.out[i].filename = fx.C[i].filename
         /\ fx.out[i].content =
              IF fx.C[i].filename \in NamesOf(fx.U)
              THEN ContentIn(fx.U, fx.C[i].filename)
              ELSE fx.C[i].content
    /\ SubSeq(fx.out, Len(fx.C) + 1, Len(fx.out)) = SelectSeq(fx.U, IsNewName)

\* [a.tf, b.tf] merged with {b.tf: new, c.tf: x} has given [a.tf, b.tf(new), c.tf].
C6_Witness ==
  /\ fx.op = "merged"
  /\ fx.C = << TerraformFile(<<"a.tf">>, <<"x">>), TerraformFile(<<"b.tf">>, <<"x">>) >>
  /\ fx.U = << TerraformFile(<<"b.tf">>, <<"new">>), TerraformFile(<<"c.tf">>, <<"x">>) >>
  /\ fx.out = << TerraformFile(<<"a.tf">>, <<"x">>), TerraformFile(<<"b.tf">>, <<"new">>),
                 TerraformFile(<<"c.tf">>, <<"x">>) >>

(***************************************************************************)
(* Properties of the loader (SpecZip)                                      *)
(***************************************************************************)
\* An entry the loader is to return: a file whose path does not begin with
\* "." or "__MACOSX" and whose name ends in one of the five extensions.
Wanted(e) ==
  /\ ~e.dir
  /\ e.filename[1] # "." /\ e.filename[1] # "__MACOSX"
  /\ e.filename[Len(e.filename)] \in {".tf", ".md", ".json", ".yaml", ".txt"}

AsFiles(entries) ==
  [i \in 1..Len(entries) |-> [filename |-> entries[i].filename, content |-> entries[i].content]]

\* C24: the loader returns the wanted entries, and only those, in the order
\* of the archive; when the file is not a zip, or a wanted entry cannot be
\* read, it fails with the one error and returns nothing.
C24_LoaderFilter ==
  fx.op = "loaded" =>
    IF ~fx.file.valid
       \/ \E i \in 1..Len(fx.file.entries) :
            Wanted(fx.file.entries[i]) /\ ~fx.file.entries[i].readable
    THEN fx.out =
           Throw(<<"Failed to extract custom modules. Please ensure it is a valid ZIP file.">>)
    ELSE fx.out = Return(AsFiles(SelectSeq(fx.file.entries, Wanted)))

\* notes.txt, logo.png and main.tf, in that order, have given notes.txt and
\* main.tf.
C24_Witness ==
  /\ fx.op = "loaded"
  /\ fx.file.entries = << Entry(<<"notes", ".txt">>, FALSE, TRUE),
                          Entry(<<"logo", ".png">>, FALSE, TRUE),
                          Entry(<<"main", ".tf">>, FALSE, TRUE) >>
  /\ fx.out = Return(<< TerraformFile(<<"notes", ".txt">>, <<"module">>),
                        TerraformFile(<<"main", ".tf">>, <<"module">>) >>)

(***************************************************************************)
(* Properties of the extractor (SpecJSON)                                  *)
(***************************************************************************)
IsWrapped == fx.fence # "none" \/ fx.prefix # <<>> \/ fx.suffix # <<>>

Has(t, c) == \E i \in 1..Len(t) : t[i] = c

IsObjectOrArray(data) == data # <<>> /\ data[1] \in {"{", "["}

ClosingOf(data) == IF data[1] = "{" THEN "}" ELSE "]"

\* The value JSON.parse gives for the payload alone.
Direct(data) == Return(JSONParse(data).val)

\* C8 as stated: every valid payload wrapped in a fence, in prose, or in both
\* is extracted to the value that parsing the payload alone gives.
C8_AnyWrapping ==
  (fx.op = "done" /\ fx.data \in ValidData /\ IsWrapped) => fx.out = Direct(fx.data)

\* C8: a valid object or array that holds no fence is extracted to the value
\* that parsing it alone gives when it is wrapped in a fence with fence-free
\* prose around it, or stands unfenced in fence-free prose whose prefix has no
\* opening brace or bracket and whose suffix has no closing delimiter of the
\* payload's type.
C8_ObjectOrArrayWrapping ==
  ( /\ fx.op = "done"
    /\ fx.data \in ValidData
    /\ IsWrapped
    /\ IsObjectOrArray(fx.data)
    /\ ~Has(fx.data, FENCE) /\ ~Has(fx.prefix, FENCE) /\ ~Has(fx.suffix, FENCE)
    /\ \/ fx.fence # "none"
       \/ /\ ~Has(fx.prefix, "{") /\ ~Has(fx.prefix, "[")
          /\ ~Has(fx.suffix, ClosingOf(fx.data)) )
  => fx.out = Direct(fx.data)

\* w <fence>json {"x":[1,2]} <fence> w has been extracted to {x:[1,2]}.
C8_Witness ==
  /\ fx.op = "done"
  /\ fx.prefix = <<"w">> /\ fx.suffix = <<"w">> /\ fx.fence = "json"
  /\ fx.data = <<"{", DQ, "x", DQ, ":", "[", "1", ",", "2", "]", "}">>
  /\ fx.out = Return(JObj(<< <<"x">> >>, << JArr(<<JNum(<<"1">>), JNum(<<"2">>)>>) >>))

\* A text made of the given symbols only.
Only(t, S) == \A i \in 1..Len(t) : t[i] \in S

\* C9: the empty text without a default fails with an error and returns
\* nothing; with a default no error is raised, and the result is exactly the
\* default when the text is empty or what is left of it does not parse.
C9_FailurePolicy ==
  fx.op = "done" =>
    /\ (fx.text = <<>> /\ ~fx.defaultVal.given) =>
          fx.out = Throw(<<"Received empty text for JSON parsing">>)
    /\ fx.defaultVal.given => ~fx.out.threw
    /\ (fx.defaultVal.given /\ (fx.text = <<>> \/ ~JSONParse(Cleaned(fx.text)).ok)) =>
          fx.out = Return(fx.defaultVal.val)
    /\ ( /\ fx.defaultVal.given /\ fx.data \in InvalidData /\ fx.fence = "none"
         /\ Only(fx.prefix, {"w", WS}) /\ Only(fx.suffix, {"w", WS}) ) =>
          fx.out = Return(fx.defaultVal.val)

\* An unclosed object, with a default supplied, has given the default.
C9_Witness ==
  /\ fx.op = "done"
  /\ fx.defaultVal.given
  /\ fx.data = <<"{", DQ, "a", DQ, ":", "1">>
  /\ fx.out = Return(fx.defaultVal.val)

\* The positions of c in t.
Positions(t, c) == {i \in 1..Len(t) : t[i] = c}

Least(S) == CHOOSE i \in S : \A j \in S : i <= j
Greatest(S) == CHOOSE i \in S : \A j \in S : i >= j

\* The payload of the text t: from the first "{" or "[" to the last closing
\* delimiter of that type, or t when there is no such span.
Payload(t) ==
  LET opens == Positions(t, "{") \cup Positions(t, "[") IN
  IF opens = {} THEN t
  ELSE LET first == Least(opens)
           closes == Positions(t, IF t[first] = "{" THEN "}" ELSE "]")
       IN IF closes # {} /\ Greatest(closes) > first
          THEN SubSeq(t, first, Greatest(closes))
          ELSE t

\* C25: what is parsed is the span of the trimmed, unfenced text from its
\* first opening brace or bracket to the last closing delimiter of the same
\* type, and the whole of that text when the closing delimiter is absent or
\* lies before the start.
C25_SpanByType ==
  (fx.op = "done" /\ fx.text # <<>>) =>
    /\ Cleaned(fx.text) = Payload(Unfenced(fx.text))
    /\ fx.out = ParsedOr(JSONParse(Payload(Unfenced(fx.text))), fx.defaultVal)

\* w [1,{"a":2}] } has been cut at the last "]", not at the last "}".
C25_Witness ==
  /\ fx.op = "done"
  /\ fx.fence = "none" /\ fx.prefix = <<"w">> /\ fx.suffix = <<"}">>
  /\ fx.data = <<"[", "1", ",", "{", DQ, "a", DQ, ":", "2", "}", "]">>
  /\ Payload(Unfenced(fx.text)) = fx.data
  /\ fx.out = Direct(fx.data)

\* The symbols of t stand in msg, in order and side by side.
Includes(msg, t) ==
  \E i \in 1..(Len(msg) + 1) :
    i + Len(t) - 1 <= Len(msg) /\ SubSeq(msg, i, i + Len(t) - 1) = t

\* C26 as stated: the error raised when the extraction fails without a
\* default holds the original text and the cleaned text.
C26_ErrorHoldsTexts ==
  (fx.op = "done" /\ ~fx.defaultVal.given /\ fx.out.threw) =>
    /\ Includes(fx.out.msg, fx.text)
    /\ Includes(fx.out.msg, Cleaned(fx.text))

\* C23 as stated: a text that, trimmed and taken out of its fence, holds no
\* opening brace and no opening bracket gives the default when one was
\* supplied and an error otherwise, never a parsed value.
C23_NoDelimiterFails ==
  ( /\ fx.op = "done"
    /\ ~Has(Unfenced(fx.text), "{") /\ ~Has(Unfenced(fx.text), "[") )
  => fx.out = IF fx.defaultVal.given THEN Return(fx.defaultVal.val)
              ELSE IF fx.text = <<>> THEN Throw(<<"Received empty text for JSON parsing">>)
              ELSE Throw(<<"Failed to parse AI response as JSON: ", SyntaxErrorMessage>>)

====
